---- MODULE Spec2Model ----
(***************************************************************************)
(* Model of ee/tabby-schema/src/schema/mod.rs: the GraphQL gateway that    *)
(* guards every query, mutation and subscription, dispatches it to a       *)
(* domain service and translates CoreError into a juniper FieldError.      *)
(*                                                                         *)
(* A handler is a sequence of steps (guard, lookup, policy predicate,      *)
(* service call) separated by await points; a request executes the steps   *)
(* of its handler in order and ends at the first step that fails (`?`).    *)
(***************************************************************************)
EXTENDS Integers, Sequences, FiniteSets, TLC

\* ------------------------------------------------------------------ bounds
\* Number of user records held by the authentication service.
NumUsers == 2
\* Number of thread ids the thread service can hand out.
MaxThreads == 1
\* Number of page ids and of section ids.
NumPages == 1
\* Number of events a subscriber consumes from one stream.
MaxEvents == 2
\* Number of messages one thread holds.
MaxMsgs == 2
\* Number of rows a listed collection holds.
MaxItems == 3
\* Largest `first` / `last` a caller asks for.
MaxPage == 2
MaxFields == 2
MaxFieldErrors == 1

UserIds == 1..NumUsers
\* A principal outlives its user record: subject NumUsers + 1 is the id of a
\* user whose record is gone.
SubjectIds == 1..(NumUsers + 1)
ThreadIds == 1..MaxThreads
PageIds == 1..NumPages
SectionIds == 1..NumPages
Slots == {"a"}

VARIABLES
    user_db,        \* AuthenticationService: id -> user record
    license_db,     \* LicenseService: the current license
    thread_db,      \* ThreadService: id -> thread
    next_thread_id, \* ThreadService: the id the next created thread gets
    page_db,        \* PageService: id -> page
    section_db,     \* PageService: id -> section
    membership_db,  \* UserGroupService: user -> membership in the user group
    page_enabled,   \* ServiceLocator::page() is Some
    req,            \* the in-flight operation of each slot
    fe              \* the error translator's input and output

services == <<user_db, license_db, thread_db, next_thread_id, page_db,
              section_db, membership_db, page_enabled>>
vars == <<user_db, license_db, thread_db, next_thread_id, page_db,
          section_db, membership_db, page_enabled, req, fe>>

\* ------------------------------------------------------------- CoreError
Ok == [kind |-> "Ok", msg |-> ""]
Err(kind, msg) == [kind |-> kind, msg |-> msg]
Pending == [kind |-> "Pending", msg |-> ""]
\* A service call that fails for a reason of its own (`.await?`).
ServiceFailure == Err("Other", "service failure")

\* ------------------------------------------------------------ data model
NoClaims == [present |-> FALSE, sub |-> 0, tok |-> FALSE]
Principals ==
    {NoClaims} \cup
    {[present |-> TRUE, sub |-> u, tok |-> t] : u \in SubjectIds, t \in BOOLEAN}

NoUser == [loaded |-> FALSE, id |-> 0, is_admin |-> FALSE]
NoTarget == [owner |-> 0, is_ephemeral |-> FALSE, page_id |-> 0]
NoUserRec == [exists |-> FALSE, is_admin |-> FALSE, active |-> FALSE]
NoThread == [exists |-> FALSE, user_id |-> 0, is_ephemeral |-> FALSE, msgs |-> 0]
NoPage == [exists |-> FALSE, author_id |-> 0]
NoSection == [exists |-> FALSE, page_id |-> 0]
LicenseTypes == {"Community", "Team", "Enterprise"}

\* Option<T>: None, or Some(x).
None == <<>>
Some(x) == <<x>>

\* The pagination arguments of a list query, and the Connection it returns.
NoWindow == [after |-> None, before |-> None, first |-> None, last |-> None]
NoConn == [edges |-> <<>>, has_next_page |-> FALSE,
           has_previous_page |-> FALSE]

\* `items` is the collection a list query reads, `window` its pagination
\* arguments, `conn` the connection it got and `seen` the nodes of the pages
\* the caller has already read.
IdleReq ==
    [op |-> "none", claims |-> NoClaims, id |-> 0, flag |-> FALSE,
     valid |-> TRUE, status |-> "idle", pc |-> 0, user |-> NoUser,
     target |-> NoTarget, trace |-> <<>>, result |-> Pending, events |-> 0,
     items |-> <<>>, window |-> NoWindow, conn |-> NoConn, seen |-> <<>>]

\* ---------------------------------------------------------------- guards
check_claims_unchecked(ctx) == Ok

check_claims(ctx) ==
    IF ~ctx.present THEN Err("Unauthorized", "You're not logged in") ELSE Ok

\* AuthenticationService::get_user: the record of the principal's subject.
get_user(sub, fault) ==
    IF fault THEN ServiceFailure
    ELSE IF ~user_db[sub].exists THEN Err("Unauthorized", "User not found")
    ELSE Ok

check_user_and_auth_token_unauthorized(ctx, allow_auth_token, fault) ==
    IF check_claims(ctx).kind # "Ok" THEN check_claims(ctx)
    ELSE IF ~allow_auth_token /\ ctx.tok
         THEN Err("Unauthorized",
                  "Invoking this API with an auth token is not allowed")
    ELSE get_user(ctx.sub, fault)

\* The user record is loaded first, the kind of principal looked at after.
check_user_and_auth_token_loads_first(ctx, allow_auth_token, fault) ==
    IF check_claims(ctx).kind # "Ok" THEN check_claims(ctx)
    ELSE IF get_user(ctx.sub, fault).kind # "Ok" THEN get_user(ctx.sub, fault)
    ELSE IF ~allow_auth_token /\ ctx.tok
         THEN Err("Forbidden",
                  "Invoking this API with an auth token is not allowed")
    ELSE Ok

check_user_and_auth_token(ctx, allow_auth_token, fault) ==
    IF check_claims(ctx).kind # "Ok" THEN check_claims(ctx)
    ELSE IF ~allow_auth_token /\ ctx.tok
         THEN Err("Forbidden",
                  "Invoking this API with an auth token is not allowed")
    ELSE get_user(ctx.sub, fault)

check_user(ctx, fault) == check_user_and_auth_token(ctx, FALSE, fault)

check_user_allow_auth_token(ctx, fault) ==
    check_user_and_auth_token(ctx, TRUE, fault)

check_admin_any_user(ctx, fault) == check_user(ctx, fault)

\* check_admin that goes by who the principal was when its token was issued:
\* the first registered user.
check_admin_as_issued(ctx, fault) ==
    IF check_user(ctx, fault).kind # "Ok" THEN check_user(ctx, fault)
    ELSE IF ctx.sub # 1
         THEN Err("Forbidden", "You must be admin to proceed")
    ELSE Ok

check_admin(ctx, fault) ==
    IF check_user(ctx, fault).kind # "Ok" THEN check_user(ctx, fault)
    ELSE IF ~user_db[ctx.sub].is_admin
         THEN Err("Forbidden", "You must be admin to proceed")
    ELSE Ok

\* LicenseInfo::ensure_valid_license
ensure_valid_license(license) ==
    IF license.valid THEN Ok
    ELSE Err("InvalidLicense", "Your license is not valid")

check_license_tier_only(license_type, fault) ==
    IF fault THEN ServiceFailure
    ELSE IF license_db.type \notin license_type
         THEN Err("InvalidLicense",
                  "Your plan doesn't include support for this feature.")
    ELSE Ok

check_license(license_type, fault) ==
    IF fault THEN ServiceFailure
    ELSE IF license_db.type \notin license_type
         THEN Err("InvalidLicense",
                  "Your plan doesn't include support for this feature.")
    ELSE ensure_valid_license(license_db)

\* ------------------------------------------------------- access policy
\* AccessPolicy of the loaded user; every predicate answers with Ok or
\* Forbidden.
check_read_thread(user, user_id, is_ephemeral) ==
    IF is_ephemeral /\ user.id # user_id
    THEN Err("Forbidden", "You have no permission to read this thread")
    ELSE Ok

check_delete_thread(user, user_id) ==
    IF user.id # user_id
    THEN Err("Forbidden", "You must be the thread owner to delete it")
    ELSE Ok

check_delete_thread_messages(user, user_id) ==
    IF user.id # user_id
    THEN Err("Forbidden", "You must be the thread owner to delete its messages")
    ELSE Ok

check_update_thread_persistence(user, user_id) ==
    IF user.id # user_id
    THEN Err("Forbidden", "You must be the thread owner to persist it")
    ELSE Ok

check_update_thread_message(user, user_id) ==
    IF user.id # user_id
    THEN Err("Forbidden", "You must be the thread owner to update its messages")
    ELSE Ok

check_update_page(user, author_id) ==
    IF user.id # author_id
    THEN Err("Forbidden", "You must be the page author to update it")
    ELSE Ok

check_upsert_user_group_membership(user) ==
    IF user.is_admin \/ membership_db[user.id] = "admin" THEN Ok
    ELSE Err("Forbidden", "You must be a group admin to change its members")

check_delete_user_group_membership(user) ==
    IF user.is_admin \/ membership_db[user.id] = "admin" THEN Ok
    ELSE Err("Forbidden", "You must be a group admin to change its members")

\* The users argument of an analytics query: none given, or one user id.
UserList(id) == IF id = 0 THEN <<>> ELSE <<id>>

check_read_analytic(user, users) ==
    IF user.is_admin \/ users = <<user.id>> THEN Ok
    ELSE Err("Forbidden", "You must be admin to read other users' data")

\* The predicate a policy step evaluates on the resolved target.
PolicyResult(step, user, target) ==
    CASE step = "policy.check_read_thread" ->
            check_read_thread(user, target.owner, target.is_ephemeral)
      [] step = "policy.check_delete_thread" ->
            check_delete_thread(user, target.owner)
      [] step = "policy.check_delete_thread_messages" ->
            check_delete_thread_messages(user, target.owner)
      [] step = "policy.check_update_thread_persistence" ->
            check_update_thread_persistence(user, target.owner)
      [] step = "policy.check_update_thread_message" ->
            check_update_thread_message(user, target.owner)
      [] step = "policy.check_update_page" ->
            check_update_page(user, target.owner)
      [] step = "policy.check_upsert_user_group_membership" ->
            check_upsert_user_group_membership(user)
      [] step = "policy.check_delete_user_group_membership" ->
            check_delete_user_group_membership(user)
      [] OTHER -> Ok

PolicySteps ==
    {"policy.check_read_thread", "policy.check_delete_thread",
     "policy.check_delete_thread_messages",
     "policy.check_update_thread_persistence",
     "policy.check_update_thread_message", "policy.check_update_page",
     "policy.check_upsert_user_group_membership",
     "policy.check_delete_user_group_membership"}

\* -------------------------------------------------------------- handlers
\* Query::registration_token
registration_token ==
    <<"check_admin", "worker.read_registration_token">>

\* Query::me
me ==
    <<"check_user_allow_auth_token">>

\* Query::users
users ==
    <<"check_user", "auth.list_users">>

\* Query::invitations
invitations ==
    <<"check_admin", "auth.list_invitations">>

\* Query::job_runs
job_runs ==
    <<"check_admin", "job.list">>

\* Query::email_setting
email_setting ==
    <<"check_admin", "email.read_setting">>

\* Query::network_setting
network_setting ==
    <<"check_admin", "setting.read_network_setting">>

\* Query::security_setting
security_setting ==
    <<"check_admin", "setting.read_security_setting">>

\* Query::git_repositories
git_repositories ==
    <<"check_admin", "repository.git.list">>

\* Query::oauth_credential
oauth_credential ==
    <<"check_admin", "auth.read_oauth_credential">>

\* Query::oauth_callback_url
oauth_callback_url ==
    <<"check_admin", "auth.oauth_callback_url">>

\* Query::ldap_credential
ldap_credential ==
    <<"check_admin", "auth.read_ldap_credential">>

\* Query::user_events
user_events ==
    <<"check_admin", "user_event.list">>

\* Query::notifications
notifications ==
    <<"check_user", "notification.list">>

\* Query::disk_usage_stats
disk_usage_stats ==
    <<"check_admin", "analytic.disk_usage_stats">>

\* Query::integrations
integrations ==
    <<"check_admin", "integration.list_integrations">>

\* Query::integrated_repositories
integrated_repositories ==
    <<"check_admin", "repository.third_party.list_repositories_with_filter">>

\* Query::ingestion_status
ingestion_status ==
    <<"check_admin", "ingestion.stats">>

\* Query::thread_messages
thread_messages ==
    <<"check_user_allow_auth_token", "thread.get", "policy.check_read_thread", "thread.list_thread_messages">>

\* Query::custom_web_documents
custom_web_documents ==
    <<"check_admin", "web_documents.list_custom_web_documents">>

\* Query::preset_web_documents
preset_web_documents ==
    <<"check_admin", "web_documents.list_preset_web_documents">>

\* Query::source_id_access_policies
source_id_access_policies ==
    <<"check_admin", "access_policy.list_source_id_read_access">>

\* Query::test_model_connection
test_model_connection ==
    <<"check_admin", "model.test_connection">>

\* Mutation::reset_registration_token
reset_registration_token ==
    <<"check_admin", "worker.reset_registration_token">>

\* Mutation::generate_reset_password_url
generate_reset_password_url ==
    <<"check_admin", "auth.generate_reset_password_url">>

\* Mutation::update_user_active
update_user_active ==
    <<"check_admin", "self_guard", "auth.update_user_active">>

\* Mutation::update_user_role
update_user_role ==
    <<"check_admin", "self_guard", "auth.update_user_role">>

\* Mutation::create_invitation
create_invitation ==
    <<"check_admin", "auth.create_invitation">>

\* Mutation::send_test_email
send_test_email ==
    <<"check_admin", "email.send_test">>

\* Mutation::create_git_repository
create_git_repository ==
    <<"check_admin", "validate", "repository.git.create">>

\* Mutation::delete_git_repository
delete_git_repository ==
    <<"check_admin", "repository.git.delete">>

\* Mutation::update_git_repository
update_git_repository ==
    <<"check_admin", "repository.git.update">>

\* Mutation::delete_invitation
delete_invitation ==
    <<"check_admin", "auth.delete_invitation">>

\* Mutation::update_oauth_credential
update_oauth_credential ==
    <<"check_admin", "check_license", "validate", "auth.update_oauth_credential">>

\* Mutation::delete_oauth_credential
delete_oauth_credential ==
    <<"check_admin", "auth.delete_oauth_credential">>

\* Mutation::test_ldap_connection
test_ldap_connection ==
    <<"check_admin", "check_license", "auth.test_ldap_connection">>

\* Mutation::update_ldap_credential
update_ldap_credential ==
    <<"check_admin", "check_license", "validate", "auth.update_ldap_credential">>

\* Mutation::delete_ldap_credential
delete_ldap_credential ==
    <<"check_admin", "auth.delete_ldap_credential">>

\* Mutation::update_email_setting
update_email_setting ==
    <<"check_admin", "validate", "email.update_setting">>

\* update_security_setting that validates its input before it reads the license.
update_security_setting_validates_first ==
    <<"check_admin", "validate", "check_license", "setting.update_security_setting">>

\* Mutation::update_security_setting
update_security_setting ==
    <<"check_admin", "check_license", "validate", "setting.update_security_setting">>

\* Mutation::update_network_setting
update_network_setting ==
    <<"check_admin", "validate", "setting.update_network_setting">>

\* Mutation::delete_email_setting
delete_email_setting ==
    <<"check_admin", "email.delete_setting">>

\* Mutation::upload_license
upload_license ==
    <<"check_admin", "license.update">>

\* Mutation::reset_license
reset_license ==
    <<"check_admin", "license.reset">>

\* Mutation::create_integration
create_integration ==
    <<"check_admin", "validate", "integration.create_integration">>

\* Mutation::update_integration
update_integration ==
    <<"check_admin", "validate", "integration.update_integration">>

\* Mutation::delete_integration
delete_integration ==
    <<"check_admin", "integration.delete_integration">>

\* Mutation::update_integrated_repository_active
update_integrated_repository_active ==
    <<"check_admin", "repository.third_party.update_repository_active">>

\* Mutation::trigger_job_run
trigger_job_run ==
    <<"check_admin", "job.trigger">>

\* Mutation::delete_thread_message_pair
delete_thread_message_pair ==
    <<"check_user_allow_auth_token", "thread.get", "policy.check_delete_thread_messages", "thread.delete_thread_message_pair">>

delete_thread_policy_last ==
    <<"check_user_allow_auth_token", "thread.get", "thread.delete",
      "policy.check_delete_thread">>

delete_thread_without_policy ==
    <<"check_user_allow_auth_token", "thread.get", "thread.delete">>

\* Mutation::delete_thread
delete_thread ==
    <<"check_user_allow_auth_token", "thread.get", "policy.check_delete_thread", "thread.delete">>

\* Mutation::set_thread_persisted
set_thread_persisted ==
    <<"check_user_allow_auth_token", "thread.get", "policy.check_update_thread_persistence", "thread.set_persisted">>

\* Mutation::update_thread_message
update_thread_message ==
    <<"check_user", "validate", "thread.get", "policy.check_update_thread_message", "thread.update_thread_message">>

\* Mutation::update_page_title
update_page_title ==
    <<"check_user", "page_service", "validate", "page.get", "policy.check_update_page", "page.update_title">>

\* Mutation::update_page_content
update_page_content ==
    <<"check_user", "page_service", "validate", "page.get", "policy.check_update_page", "page.update_content">>

\* Mutation::update_page_section_title
update_page_section_title ==
    <<"check_user", "page_service", "validate", "page.get_section", "page.get", "policy.check_update_page", "page.update_section_title">>

\* Mutation::update_page_section_content
update_page_section_content ==
    <<"check_user", "page_service", "validate", "page.get_section", "page.get", "policy.check_update_page", "page.update_section_content">>

\* Mutation::delete_page
delete_page ==
    <<"check_user", "page_service", "page.get", "policy.check_update_page", "page.delete">>

\* Mutation::delete_page_section
delete_page_section ==
    <<"check_user", "page_service", "page.get_section", "page.get", "policy.check_update_page", "page.delete_section">>

\* Mutation::move_page_section
move_page_section ==
    <<"check_user", "page_service", "page.get_section", "page.get", "policy.check_update_page", "page.move_section">>

\* Mutation::create_custom_document
create_custom_document ==
    <<"check_admin", "validate", "web_documents.create_custom_web_document">>

\* Mutation::delete_custom_document
delete_custom_document ==
    <<"check_admin", "web_documents.delete_custom_web_document">>

\* Mutation::set_preset_document_active
set_preset_document_active ==
    <<"check_admin", "validate", "web_documents.set_preset_web_documents_active">>

\* Mutation::create_user_group
create_user_group ==
    <<"check_admin", "validate", "user_group.create">>

\* Mutation::delete_user_group
delete_user_group ==
    <<"check_admin", "user_group.delete">>

\* Mutation::upsert_user_group_membership
upsert_user_group_membership ==
    <<"check_user", "policy.check_upsert_user_group_membership", "validate", "user_group.upsert_membership">>

\* Mutation::delete_user_group_membership
delete_user_group_membership ==
    <<"check_user", "policy.check_delete_user_group_membership", "user_group.delete_membership">>

\* Mutation::grant_source_id_read_access
grant_source_id_read_access ==
    <<"check_admin", "access_policy.grant_source_id_read_access">>

\* Mutation::revoke_source_id_read_access
revoke_source_id_read_access ==
    <<"check_admin", "access_policy.revoke_source_id_read_access">>

\* Subscription::create_thread_and_run
create_thread_and_run ==
    <<"check_user_allow_auth_token", "validate", "thread.create", "thread.create_run">>

\* create_thread_run with the lookup and the owner test after the calls.
create_thread_run_lookup_last ==
    <<"check_user_allow_auth_token", "validate", "thread.append_user_message", "thread.create_run", "thread.get", "owner_guard">>

\* Subscription::create_thread_run
create_thread_run ==
    <<"check_user_allow_auth_token", "validate", "thread.get", "owner_guard", "thread.append_user_message", "thread.create_run">>

\* Query::job_run_stats
job_run_stats ==
    <<"job.compute_stats">>

\* Query::license
license ==
    <<"license.read">>

\* Query::daily_stats_in_past_year
daily_stats_in_past_year ==
    <<"check_user", "policy.check_read_analytic", "analytic.daily_stats_in_past_year">>

\* Query::daily_stats
daily_stats ==
    <<"check_user", "policy.check_read_analytic", "analytic.daily_stats">>

\* Query::chat_daily_stats_in_past_year
chat_daily_stats_in_past_year ==
    <<"check_user", "policy.check_read_analytic", "analytic.chat_daily_stats_in_past_year">>

\* Query::chat_daily_stats
chat_daily_stats ==
    <<"check_user", "policy.check_read_analytic", "analytic.chat_daily_stats">>

pages_without_capability_check ==
    <<"check_user", "page.list">>

\* Query::pages
pages ==
    <<"check_user", "page_service", "page.list">>

\* Query::page_sections
page_sections ==
    <<"check_user", "page_service", "page.list_sections">>

\* Mutation::password_change
password_change ==
    <<"check_claims", "validate", "auth.update_user_password">>

\* Mutation::reset_user_auth_token
reset_user_auth_token ==
    <<"check_claims", "auth.reset_user_auth_token">>

\* Mutation::logout_all_sessions
logout_all_sessions ==
    <<"check_claims", "auth.logout_all_sessions">>

\* Mutation::upload_user_avatar_base64
upload_user_avatar_base64 ==
    <<"check_claims", "same_user_guard", "decode_avatar", "auth.update_user_avatar">>

\* Mutation::update_user_name
update_user_name ==
    <<"check_claims", "same_user_guard", "validate", "auth.update_user_name">>

\* Subscription::create_page_run
create_page_run ==
    <<"check_user", "page_service", "page.create_run">>

\* Subscription::create_thread_to_page_run
create_thread_to_page_run ==
    <<"check_user", "page_service", "page.convert_thread_to_page">>

\* Subscription::create_page_section_run
create_page_section_run ==
    <<"check_user", "page_service", "page.get", "policy.check_update_page", "page.append_section">>

\* Query::threads
threads ==
    <<"check_user_allow_auth_token", "thread.list", "check_read_thread.edges">>

\* Query::my_threads
my_threads ==
    <<"check_user_allow_auth_token", "thread.list_owned">>

\* Query::repository_search
repository_search ==
    <<"check_user", "repository.search_files">>

\* Query::repository_grep
repository_grep ==
    <<"check_user", "repository.grep">>

\* Query::repository_list
repository_list ==
    <<"check_user_allow_auth_token", "repository.repository_list">>

\* Query::context_info
context_info ==
    <<"check_user_allow_auth_token", "context.read">>

\* Query::user_groups
user_groups ==
    <<"check_user", "user_group.list">>

\* Mutation::mark_notifications_read
mark_notifications_read ==
    <<"check_user", "notification.mark_read">>

\* The handler an operation name dispatches to.
Program(op) ==
    CASE op = "registration_token" -> registration_token
      [] op = "me" -> me
      [] op = "users" -> users
      [] op = "threads" -> threads
      [] op = "my_threads" -> my_threads
      [] op = "repository_search" -> repository_search
      [] op = "repository_grep" -> repository_grep
      [] op = "repository_list" -> repository_list
      [] op = "context_info" -> context_info
      [] op = "user_groups" -> user_groups
      [] op = "mark_notifications_read" -> mark_notifications_read
      [] op = "invitations" -> invitations
      [] op = "job_runs" -> job_runs
      [] op = "email_setting" -> email_setting
      [] op = "network_setting" -> network_setting
      [] op = "security_setting" -> security_setting
      [] op = "git_repositories" -> git_repositories
      [] op = "oauth_credential" -> oauth_credential
      [] op = "oauth_callback_url" -> oauth_callback_url
      [] op = "ldap_credential" -> ldap_credential
      [] op = "user_events" -> user_events
      [] op = "notifications" -> notifications
      [] op = "disk_usage_stats" -> disk_usage_stats
      [] op = "integrations" -> integrations
      [] op = "integrated_repositories" -> integrated_repositories
      [] op = "ingestion_status" -> ingestion_status
      [] op = "thread_messages" -> thread_messages
      [] op = "custom_web_documents" -> custom_web_documents
      [] op = "preset_web_documents" -> preset_web_documents
      [] op = "source_id_access_policies" -> source_id_access_policies
      [] op = "test_model_connection" -> test_model_connection
      [] op = "reset_registration_token" -> reset_registration_token
      [] op = "generate_reset_password_url" -> generate_reset_password_url
      [] op = "update_user_active" -> update_user_active
      [] op = "update_user_role" -> update_user_role
      [] op = "create_invitation" -> create_invitation
      [] op = "send_test_email" -> send_test_email
      [] op = "create_git_repository" -> create_git_repository
      [] op = "delete_git_repository" -> delete_git_repository
      [] op = "update_git_repository" -> update_git_repository
      [] op = "delete_invitation" -> delete_invitation
      [] op = "update_oauth_credential" -> update_oauth_credential
      [] op = "delete_oauth_credential" -> delete_oauth_credential
      [] op = "test_ldap_connection" -> test_ldap_connection
      [] op = "update_ldap_credential" -> update_ldap_credential
      [] op = "delete_ldap_credential" -> delete_ldap_credential
      [] op = "update_email_setting" -> update_email_setting
      [] op = "update_security_setting" -> update_security_setting
      [] op = "update_network_setting" -> update_network_setting
      [] op = "delete_email_setting" -> delete_email_setting
      [] op = "upload_license" -> upload_license
      [] op = "reset_license" -> reset_license
      [] op = "create_integration" -> create_integration
      [] op = "update_integration" -> update_integration
      [] op = "delete_integration" -> delete_integration
      [] op = "update_integrated_repository_active" -> update_integrated_repository_active
      [] op = "trigger_job_run" -> trigger_job_run
      [] op = "delete_thread_message_pair" -> delete_thread_message_pair
      [] op = "delete_thread" -> delete_thread
      [] op = "set_thread_persisted" -> set_thread_persisted
      [] op = "update_thread_message" -> update_thread_message
      [] op = "update_page_title" -> update_page_title
      [] op = "update_page_content" -> update_page_content
      [] op = "update_page_section_title" -> update_page_section_title
      [] op = "update_page_section_content" -> update_page_section_content
      [] op = "delete_page" -> delete_page
      [] op = "delete_page_section" -> delete_page_section
      [] op = "move_page_section" -> move_page_section
      [] op = "create_custom_document" -> create_custom_document
      [] op = "delete_custom_document" -> delete_custom_document
      [] op = "set_preset_document_active" -> set_preset_document_active
      [] op = "create_user_group" -> create_user_group
      [] op = "delete_user_group" -> delete_user_group
      [] op = "upsert_user_group_membership" -> upsert_user_group_membership
      [] op = "delete_user_group_membership" -> delete_user_group_membership
      [] op = "grant_source_id_read_access" -> grant_source_id_read_access
      [] op = "revoke_source_id_read_access" -> revoke_source_id_read_access
      [] op = "create_thread_and_run" -> create_thread_and_run
      [] op = "create_thread_run" -> create_thread_run
      [] op = "job_run_stats" -> job_run_stats
      [] op = "license" -> license
      [] op = "daily_stats_in_past_year" -> daily_stats_in_past_year
      [] op = "daily_stats" -> daily_stats
      [] op = "chat_daily_stats_in_past_year" -> chat_daily_stats_in_past_year
      [] op = "chat_daily_stats" -> chat_daily_stats
      [] op = "pages" -> pages
      [] op = "page_sections" -> page_sections
      [] op = "password_change" -> password_change
      [] op = "reset_user_auth_token" -> reset_user_auth_token
      [] op = "logout_all_sessions" -> logout_all_sessions
      [] op = "upload_user_avatar_base64" -> upload_user_avatar_base64
      [] op = "update_user_name" -> update_user_name
      [] op = "create_page_run" -> create_page_run
      [] op = "create_thread_to_page_run" -> create_thread_to_page_run
      [] op = "create_page_section_run" -> create_page_section_run
      [] OTHER -> <<>>

GenericCalls ==
    {"repository.search_files", "repository.grep",
     "repository.repository_list", "context.read", "user_group.list",
     "notification.mark_read",
     "access_policy.grant_source_id_read_access",
     "access_policy.list_source_id_read_access",
     "access_policy.revoke_source_id_read_access",
     "analytic.disk_usage_stats", "auth.create_invitation",
     "auth.delete_invitation", "auth.delete_ldap_credential",
     "auth.delete_oauth_credential", "auth.generate_reset_password_url",
     "auth.list_invitations", "auth.list_users", "auth.oauth_callback_url",
     "auth.read_ldap_credential", "auth.read_oauth_credential",
     "auth.test_ldap_connection", "auth.update_ldap_credential",
     "auth.update_oauth_credential", "email.delete_setting",
     "email.read_setting", "email.send_test", "email.update_setting",
     "ingestion.stats", "integration.create_integration",
     "integration.delete_integration", "integration.list_integrations",
     "integration.update_integration", "job.list", "job.trigger",
     "model.test_connection", "notification.list", "page.move_section",
     "page.update_content", "page.update_section_content",
     "page.update_section_title", "page.update_title",
     "repository.git.create", "repository.git.delete",
     "repository.git.list", "repository.git.update",
     "repository.third_party.list_repositories_with_filter",
     "repository.third_party.update_repository_active",
     "setting.read_network_setting", "setting.read_security_setting",
     "setting.update_network_setting", "setting.update_security_setting",
     "thread.list_thread_messages", "thread.update_thread_message",
     "user_event.list", "user_group.create", "user_group.delete",
     "web_documents.create_custom_web_document",
     "web_documents.delete_custom_web_document",
     "web_documents.list_custom_web_documents",
     "web_documents.list_preset_web_documents",
     "web_documents.set_preset_web_documents_active",
     "worker.read_registration_token", "worker.reset_registration_token",
     "job.compute_stats", "license.read", "analytic.daily_stats_in_past_year",
     "analytic.daily_stats", "analytic.chat_daily_stats_in_past_year",
     "analytic.chat_daily_stats", "page.list", "page.list_sections",
     "auth.update_user_password", "auth.reset_user_auth_token",
     "auth.logout_all_sessions", "auth.update_user_avatar",
     "auth.update_user_name"}

\* Subscriptions: the value a successful call returns is a stream.
StreamOps ==
    {"create_thread_and_run", "create_thread_run", "create_page_run",
     "create_thread_to_page_run", "create_page_section_run"}

HasStep(op, step) == \E i \in 1..Len(Program(op)) : Program(op)[i] = step

\* ------------------------------------------------------- request inputs
ArgIds(op) ==
    IF op \in {"update_user_active", "update_user_role"} THEN SubjectIds
    ELSE IF HasStep(op, "same_user_guard") THEN SubjectIds
    ELSE IF HasStep(op, "policy.check_read_analytic") \/ op = "user_events"
    THEN {0} \cup UserIds
    ELSE IF op \in {"upsert_user_group_membership",
                    "delete_user_group_membership"} THEN UserIds
    ELSE IF HasStep(op, "thread.get") THEN ThreadIds
    ELSE IF HasStep(op, "page.get_section") THEN SectionIds
    ELSE IF HasStep(op, "page.get") THEN PageIds
    ELSE {0}

ArgFlags(op) ==
    IF op \in {"update_user_active", "update_user_role",
               "upsert_user_group_membership"} THEN BOOLEAN
    ELSE {FALSE}

\* input.validate(): only the handlers that validate see an invalid input.
ArgValid(op) ==
    IF HasStep(op, "validate") \/ HasStep(op, "decode_avatar") THEN BOOLEAN
    ELSE {TRUE}

\* ------------------------------------------------------ step execution
Step(s) == Program(req[s].op)[req[s].pc]

AtStep(s, step) == req[s].status = "run" /\ Step(s) = step

\* The step succeeded: go on to the next one, or return the handler's value.
Proceed(r, step) ==
    LET r1 == [r EXCEPT !.pc = @ + 1, !.trace = Append(@, step)]
    IN  IF r.pc < Len(Program(r.op)) THEN r1
        ELSE [r1 EXCEPT !.status = IF r.op \in StreamOps THEN "stream"
                                   ELSE "done",
                        !.result = Ok]

\* The step failed: `?` returns the error as the handler's result.
Abort(r, e) == [r EXCEPT !.status = "done", !.result = e]

Settle(r, step, e) == IF e.kind = "Ok" THEN Proceed(r, step) ELSE Abort(r, e)

LoadedUser(sub) == [loaded |-> TRUE, id |-> sub, is_admin |-> user_db[sub].is_admin]

\* An operation arrives: juniper builds the Context and calls the handler.
Start(s, ops) ==
    /\ req[s].status = "idle"
    /\ \E op \in ops, c \in Principals :
       \E id \in ArgIds(op), flag \in ArgFlags(op), valid \in ArgValid(op) :
          req' = [req EXCEPT ![s] =
                    [IdleReq EXCEPT !.op = op, !.claims = c, !.id = id,
                                    !.flag = flag, !.valid = valid,
                                    !.status = "run", !.pc = 1]]
    /\ UNCHANGED <<services, fe>>

\* The response went out (or the stream ended): the Context is dropped.
Return(s) ==
    /\ req[s].status \in {"done", "cancelled", "dropped", "completed"}
    /\ req' = [req EXCEPT ![s] = IdleReq]
    /\ UNCHANGED <<services, fe>>

\* The handler's future is dropped at an await point.
Cancel(s) ==
    /\ req[s].status = "run"
    /\ req' = [req EXCEPT ![s].status = "cancelled"]
    /\ UNCHANGED <<services, fe>>

CheckClaims(s) ==
    /\ AtStep(s, "check_claims")
    /\ req' = [req EXCEPT ![s] =
                 Settle(@, "check_claims", check_claims(req[s].claims))]
    /\ UNCHANGED <<services, fe>>

CheckUser(s) ==
    /\ AtStep(s, "check_user")
    /\ \E fault \in BOOLEAN :
         LET e == check_user(req[s].claims, fault)
         IN  req' = [req EXCEPT ![s] =
                       IF e.kind = "Ok"
                       THEN Proceed([@ EXCEPT !.user = LoadedUser(req[s].claims.sub)],
                                    "check_user")
                       ELSE Abort(@, e)]
    /\ UNCHANGED <<services, fe>>

CheckUserAllowAuthToken(s) ==
    /\ AtStep(s, "check_user_allow_auth_token")
    /\ \E fault \in BOOLEAN :
         LET e == check_user_allow_auth_token(req[s].claims, fault)
         IN  req' = [req EXCEPT ![s] =
                       IF e.kind = "Ok"
                       THEN Proceed([@ EXCEPT !.user = LoadedUser(req[s].claims.sub)],
                                    "check_user_allow_auth_token")
                       ELSE Abort(@, e)]
    /\ UNCHANGED <<services, fe>>

\* check_admin whose error is dropped instead of returned with `?`.
CheckAdminContinues(s) ==
    /\ AtStep(s, "check_admin")
    /\ req' = [req EXCEPT ![s] = Proceed(@, "check_admin")]
    /\ UNCHANGED <<services, fe>>

CheckAdmin(s) ==
    /\ AtStep(s, "check_admin")
    /\ \E fault \in BOOLEAN :
         req' = [req EXCEPT ![s] =
                   Settle(@, "check_admin", check_admin(req[s].claims, fault))]
    /\ UNCHANGED <<services, fe>>

CheckLicense(s) ==
    /\ AtStep(s, "check_license")
    /\ \E fault \in BOOLEAN :
         req' = [req EXCEPT ![s] =
                   Settle(@, "check_license",
                          check_license({"Enterprise"}, fault))]
    /\ UNCHANGED <<services, fe>>

\* input.validate()?
Validate(s) ==
    /\ AtStep(s, "validate")
    /\ req' = [req EXCEPT ![s] =
                 Settle(@, "validate",
                        IF req[s].valid THEN Ok
                        ELSE Err("InvalidInput", "Invalid input parameters"))]
    /\ UNCHANGED <<services, fe>>

self_guard_always_passes(ctx, op, id) == Ok

\* self_guard that lets a caller change its own role.
self_guard_own_role_allowed(ctx, op, id) ==
    IF ctx.present /\ ctx.sub = id /\ op = "update_user_active"
    THEN Err("Forbidden", "You cannot change your own active status")
    ELSE Ok

\* ctx.claims.as_ref().is_some_and(|c| c.sub == id)
self_guard(ctx, op, id) ==
    IF ctx.present /\ ctx.sub = id
    THEN IF op = "update_user_active"
         THEN Err("Forbidden", "You cannot change your own active status")
         ELSE Err("Forbidden", "You cannot update your own role")
    ELSE Ok

SelfGuard(s) ==
    /\ AtStep(s, "self_guard")
    /\ req' = [req EXCEPT ![s] =
                 Settle(@, "self_guard",
                        self_guard(req[s].claims, req[s].op, req[s].id))]
    /\ UNCHANGED <<services, fe>>

\* claims.sub != id
same_user_guard(ctx, op, id) ==
    IF ctx.sub # id
    THEN IF op = "upload_user_avatar_base64"
         THEN Err("Unauthorized", "You cannot change another user's avatar")
         ELSE Err("Unauthorized", "You cannot change another user's name")
    ELSE Ok

SameUserGuard(s) ==
    /\ AtStep(s, "same_user_guard")
    /\ req' = [req EXCEPT ![s] =
                 Settle(@, "same_user_guard",
                        same_user_guard(req[s].claims, req[s].op, req[s].id))]
    /\ UNCHANGED <<services, fe>>

\* BASE64_STANDARD.decode(avatar), an anyhow error when it fails.
DecodeAvatar(s) ==
    /\ AtStep(s, "decode_avatar")
    /\ req' = [req EXCEPT ![s] =
                 Settle(@, "decode_avatar",
                        IF req[s].valid THEN Ok
                        ELSE Err("Other", "avatar is not valid base64 string"))]
    /\ UNCHANGED <<services, fe>>

\* user.policy.check_read_analytic(&users)?
CheckReadAnalytic(s) ==
    /\ AtStep(s, "policy.check_read_analytic")
    /\ req' = [req EXCEPT ![s] =
                 Settle(@, "policy.check_read_analytic",
                        check_read_analytic(req[s].user, UserList(req[s].id)))]
    /\ UNCHANGED <<services, fe>>

\* ctx.locator.page(): None when the page feature is off.
PageService(s) ==
    /\ AtStep(s, "page_service")
    /\ req' = [req EXCEPT ![s] =
                 Settle(@, "page_service",
                        IF page_enabled THEN Ok
                        ELSE Err("Forbidden", "Page service is not enabled"))]
    /\ UNCHANGED <<services, fe>>

\* The owner test with the exception for admins that the access policy makes
\* elsewhere.
OwnerGuardAdminBypass(s) ==
    /\ AtStep(s, "owner_guard")
    /\ req' = [req EXCEPT ![s] =
                 Settle(@, "owner_guard",
                        IF req[s].target.owner # req[s].user.id
                           /\ ~req[s].user.is_admin
                        THEN Err("Forbidden",
                                 "You must be the thread owner to create a run")
                        ELSE Ok)]
    /\ UNCHANGED <<services, fe>>

\* The owner test answered from a check another invocation on the same
\* thread has already passed.
OwnerGuardSharedCheck(s) ==
    /\ AtStep(s, "owner_guard")
    /\ req' = [req EXCEPT ![s] =
                 Settle(@, "owner_guard",
                        IF /\ req[s].target.owner # req[s].user.id
                           /\ ~\E t \in DOMAIN req \ {s} :
                                 /\ req[t].id = req[s].id
                                 /\ \E i \in 1..Len(req[t].trace) :
                                       req[t].trace[i] = "owner_guard"
                        THEN Err("Forbidden",
                                 "You must be the thread owner to create a run")
                        ELSE Ok)]
    /\ UNCHANGED <<services, fe>>

\* thread.user_id != user.id
OwnerGuard(s) ==
    /\ AtStep(s, "owner_guard")
    /\ req' = [req EXCEPT ![s] =
                 Settle(@, "owner_guard",
                        IF req[s].target.owner # req[s].user.id
                        THEN Err("Forbidden",
                                 "You must be the thread owner to create a run")
                        ELSE Ok)]
    /\ UNCHANGED <<services, fe>>

\* svc.get(&id).await? followed by the `else` that reports a missing thread.
ThreadGet(s) ==
    /\ AtStep(s, "thread.get")
    /\ \E fault \in BOOLEAN :
         LET t == thread_db[req[s].id]
         IN  req' = [req EXCEPT ![s] =
                 IF fault THEN Abort(@, ServiceFailure)
                 ELSE IF ~t.exists
                 THEN Abort(@, Err("NotFound",
                                   IF @.op = "thread_messages"
                                   THEN "thread not found"
                                   ELSE "Thread not found"))
                 ELSE Proceed([@ EXCEPT !.target =
                                 [owner |-> t.user_id,
                                  is_ephemeral |-> t.is_ephemeral,
                                  page_id |-> 0]],
                              "thread.get")]
    /\ UNCHANGED <<services, fe>>

\* page_service.get_section(&id).await?
SectionGet(s) ==
    /\ AtStep(s, "page.get_section")
    /\ \E fault \in BOOLEAN :
         LET sec == section_db[req[s].id]
         IN  req' = [req EXCEPT ![s] =
                 IF fault THEN Abort(@, ServiceFailure)
                 ELSE IF ~sec.exists
                 THEN Abort(@, Err("NotFound", "Section not found"))
                 ELSE Proceed([@ EXCEPT !.target =
                                 [owner |-> 0, is_ephemeral |-> FALSE,
                                  page_id |-> sec.page_id]],
                              "page.get_section")]
    /\ UNCHANGED <<services, fe>>

\* PageService::get: what the page service answers for a page id.
page_get(pid) ==
    IF page_db[pid].exists THEN Ok ELSE Err("NotFound", "Page not found")

\* page_service.get(&input.id) or page_service.get(&section.page_id)
PageGet(s) ==
    /\ AtStep(s, "page.get")
    /\ \E fault \in BOOLEAN :
         LET pid == IF HasStep(req[s].op, "page.get_section")
                    THEN req[s].target.page_id ELSE req[s].id
             p == page_db[pid]
         IN  req' = [req EXCEPT ![s] =
                 IF fault THEN Abort(@, ServiceFailure)
                 ELSE IF page_get(pid).kind # "Ok"
                 THEN Abort(@, page_get(pid))
                 ELSE Proceed([@ EXCEPT !.target =
                                 [owner |-> p.author_id,
                                  is_ephemeral |-> FALSE, page_id |-> pid]],
                              "page.get")]
    /\ UNCHANGED <<services, fe>>

\* user.policy.check_...(...)?
Policy(s) ==
    /\ req[s].status = "run"
    /\ Step(s) \in PolicySteps
    /\ req' = [req EXCEPT ![s] =
                 Settle(@, Step(s),
                        PolicyResult(Step(s), req[s].user, req[s].target))]
    /\ UNCHANGED <<services, fe>>

\* A service call whose effect lies outside the modelled state.
ServiceCall(s) ==
    /\ req[s].status = "run"
    /\ Step(s) \in GenericCalls
    /\ \E fault \in BOOLEAN :
         req' = [req EXCEPT ![s] =
                   IF fault THEN Abort(@, ServiceFailure)
                   ELSE Proceed(@, Step(s))]
    /\ UNCHANGED <<services, fe>>

\* ------------------------------------------- calls that change the state
\* A call step of slot s: it fails for a reason of its own, or `ok` holds and
\* the service state becomes what the call makes of it.
CallFails(s) ==
    /\ req' = [req EXCEPT ![s] = Abort(@, ServiceFailure)]
    /\ UNCHANGED <<services, fe>>

AuthUpdateUserActive(s) ==
    /\ AtStep(s, "auth.update_user_active")
    /\ \/ CallFails(s)
       \/ /\ user_db[req[s].id].exists
          /\ user_db' = [user_db EXCEPT ![req[s].id].active = req[s].flag]
          /\ req' = [req EXCEPT ![s] = Proceed(@, "auth.update_user_active")]
          /\ UNCHANGED <<license_db, thread_db, next_thread_id, page_db,
                         section_db, membership_db, page_enabled, fe>>

AuthUpdateUserRole(s) ==
    /\ AtStep(s, "auth.update_user_role")
    /\ \/ CallFails(s)
       \/ /\ user_db[req[s].id].exists
          /\ user_db' = [user_db EXCEPT ![req[s].id].is_admin = req[s].flag]
          /\ req' = [req EXCEPT ![s] = Proceed(@, "auth.update_user_role")]
          /\ UNCHANGED <<license_db, thread_db, next_thread_id, page_db,
                         section_db, membership_db, page_enabled, fe>>

\* LicenseService::update installs whatever license the uploaded key encodes.
LicenseUpdate(s) ==
    /\ AtStep(s, "license.update")
    /\ \/ CallFails(s)
       \/ /\ \E t \in LicenseTypes, v \in BOOLEAN :
                license_db' = [type |-> t, valid |-> v]
          /\ req' = [req EXCEPT ![s] = Proceed(@, "license.update")]
          /\ UNCHANGED <<user_db, thread_db, next_thread_id, page_db,
                         section_db, membership_db, page_enabled, fe>>

LicenseReset(s) ==
    /\ AtStep(s, "license.reset")
    /\ \/ CallFails(s)
       \/ /\ license_db' = [type |-> "Community", valid |-> TRUE]
          /\ req' = [req EXCEPT ![s] = Proceed(@, "license.reset")]
          /\ UNCHANGED <<user_db, thread_db, next_thread_id, page_db,
                         section_db, membership_db, page_enabled, fe>>

ThreadDelete(s) ==
    /\ AtStep(s, "thread.delete")
    /\ \/ CallFails(s)
       \/ /\ thread_db' = [thread_db EXCEPT ![req[s].id] = NoThread]
          /\ req' = [req EXCEPT ![s] = Proceed(@, "thread.delete")]
          /\ UNCHANGED <<user_db, license_db, next_thread_id, page_db,
                         section_db, membership_db, page_enabled, fe>>

ThreadSetPersisted(s) ==
    /\ AtStep(s, "thread.set_persisted")
    /\ \/ CallFails(s)
       \/ /\ thread_db[req[s].id].exists
          /\ thread_db' = [thread_db EXCEPT ![req[s].id].is_ephemeral = FALSE]
          /\ req' = [req EXCEPT ![s] = Proceed(@, "thread.set_persisted")]
          /\ UNCHANGED <<user_db, license_db, next_thread_id, page_db,
                         section_db, membership_db, page_enabled, fe>>

\* One user message and the assistant's reply to it leave the thread; msgs
\* counts the user messages.
ThreadDeleteMessagePair(s) ==
    /\ AtStep(s, "thread.delete_thread_message_pair")
    /\ \/ CallFails(s)
       \/ /\ thread_db[req[s].id].exists
          /\ thread_db[req[s].id].msgs >= 1
          /\ thread_db' = [thread_db EXCEPT ![req[s].id].msgs = @ - 1]
          /\ req' = [req EXCEPT ![s] =
                       Proceed(@, "thread.delete_thread_message_pair")]
          /\ UNCHANGED <<user_db, license_db, next_thread_id, page_db,
                         section_db, membership_db, page_enabled, fe>>

ThreadCreateRowOnly(s) ==
    /\ AtStep(s, "thread.create")
    /\ \/ CallFails(s)
       \/ /\ next_thread_id <= MaxThreads
          /\ thread_db' = [thread_db EXCEPT ![next_thread_id] =
                             [exists |-> TRUE, user_id |-> req[s].user.id,
                              is_ephemeral |-> TRUE, msgs |-> 0]]
          /\ next_thread_id' = next_thread_id + 1
          /\ req' = [req EXCEPT ![s] =
                       Proceed([@ EXCEPT !.id = next_thread_id],
                               "thread.create")]
          /\ UNCHANGED <<user_db, license_db, page_db, section_db,
                         membership_db, page_enabled, fe>>

\* thread.create(&user.id, &input.thread): the thread row and its first user
\* message in one call; the new id is returned to the handler.
ThreadCreate(s) ==
    /\ AtStep(s, "thread.create")
    /\ \/ CallFails(s)
       \/ /\ next_thread_id <= MaxThreads
          /\ thread_db' = [thread_db EXCEPT ![next_thread_id] =
                             [exists |-> TRUE, user_id |-> req[s].user.id,
                              is_ephemeral |-> TRUE, msgs |-> 1]]
          /\ next_thread_id' = next_thread_id + 1
          /\ req' = [req EXCEPT ![s] =
                       Proceed([@ EXCEPT !.id = next_thread_id],
                               "thread.create")]
          /\ UNCHANGED <<user_db, license_db, page_db, section_db,
                         membership_db, page_enabled, fe>>

ThreadAppendUserMessage(s) ==
    /\ AtStep(s, "thread.append_user_message")
    /\ \/ CallFails(s)
       \/ /\ thread_db[req[s].id].exists
          /\ thread_db[req[s].id].msgs < MaxMsgs
          /\ thread_db' = [thread_db EXCEPT ![req[s].id].msgs = @ + 1]
          /\ req' = [req EXCEPT ![s] =
                       Proceed(@, "thread.append_user_message")]
          /\ UNCHANGED <<user_db, license_db, next_thread_id, page_db,
                         section_db, membership_db, page_enabled, fe>>

\* thread.create_run(...).await: the stream, or the service's error.
ThreadCreateRun(s) ==
    /\ AtStep(s, "thread.create_run")
    /\ \/ CallFails(s)
       \/ /\ thread_db[req[s].id].exists
          /\ req' = [req EXCEPT ![s] = Proceed(@, "thread.create_run")]
          /\ UNCHANGED <<services, fe>>

\* page_service.create_run / convert_thread_to_page: a new page of the caller
\* and the stream that writes it.
PageCreate(s) ==
    /\ AtStep(s, "page.create_run") \/ AtStep(s, "page.convert_thread_to_page")
    /\ \/ CallFails(s)
       \/ \E p \in PageIds :
            /\ ~page_db[p].exists
            /\ page_db' = [page_db EXCEPT ![p] =
                             [exists |-> TRUE, author_id |-> req[s].user.id]]
            /\ req' = [req EXCEPT ![s] = Proceed(@, Step(s))]
            /\ UNCHANGED <<user_db, license_db, thread_db, next_thread_id,
                           section_db, membership_db, page_enabled, fe>>

\* page_service.append_section(&user.policy, &input): a new section of the
\* page and the stream that writes it.
PageAppendSection(s) ==
    /\ AtStep(s, "page.append_section")
    /\ \/ CallFails(s)
       \/ \E x \in SectionIds :
            /\ ~section_db[x].exists
            /\ page_db[req[s].id].exists
            /\ section_db' = [section_db EXCEPT ![x] =
                                [exists |-> TRUE, page_id |-> req[s].id]]
            /\ req' = [req EXCEPT ![s] = Proceed(@, "page.append_section")]
            /\ UNCHANGED <<user_db, license_db, thread_db, next_thread_id,
                           page_db, membership_db, page_enabled, fe>>

\* page_service.delete(&id): the page and all its sections.
PageDelete(s) ==
    /\ AtStep(s, "page.delete")
    /\ \/ CallFails(s)
       \/ /\ page_db' = [page_db EXCEPT ![req[s].id] = NoPage]
          /\ section_db' = [x \in SectionIds |->
                              IF section_db[x].page_id = req[s].id
                              THEN NoSection ELSE section_db[x]]
          /\ req' = [req EXCEPT ![s] = Proceed(@, "page.delete")]
          /\ UNCHANGED <<user_db, license_db, thread_db, next_thread_id,
                         membership_db, page_enabled, fe>>

PageDeleteSection(s) ==
    /\ AtStep(s, "page.delete_section")
    /\ \/ CallFails(s)
       \/ /\ section_db' = [section_db EXCEPT ![req[s].id] = NoSection]
          /\ req' = [req EXCEPT ![s] = Proceed(@, "page.delete_section")]
          /\ UNCHANGED <<user_db, license_db, thread_db, next_thread_id,
                         page_db, membership_db, page_enabled, fe>>

UserGroupUpsertMembership(s) ==
    /\ AtStep(s, "user_group.upsert_membership")
    /\ \/ CallFails(s)
       \/ /\ membership_db[req[s].id] # "no_group"
          /\ membership_db' = [membership_db EXCEPT ![req[s].id] =
                                 IF req[s].flag THEN "admin" ELSE "member"]
          /\ req' = [req EXCEPT ![s] =
                       Proceed(@, "user_group.upsert_membership")]
          /\ UNCHANGED <<user_db, license_db, thread_db, next_thread_id,
                         page_db, section_db, page_enabled, fe>>

UserGroupDeleteMembership(s) ==
    /\ AtStep(s, "user_group.delete_membership")
    /\ \/ CallFails(s)
       \/ /\ membership_db[req[s].id] # "no_group"
          /\ membership_db' = [membership_db EXCEPT ![req[s].id] = "none"]
          /\ req' = [req EXCEPT ![s] =
                       Proceed(@, "user_group.delete_membership")]
          /\ UNCHANGED <<user_db, license_db, thread_db, next_thread_id,
                         page_db, section_db, page_enabled, fe>>

\* ---------------------------------------------------------------- streams
\* The subscriber polls the next event of the stream it was handed.
StreamEvent(s) ==
    /\ req[s].status = "stream"
    /\ req[s].events < MaxEvents
    /\ req' = [req EXCEPT ![s].events = @ + 1]
    /\ UNCHANGED <<services, fe>>

\* The stream ends with its completion marker.
StreamComplete(s) ==
    /\ req[s].status = "stream"
    /\ req' = [req EXCEPT ![s].status = "completed"]
    /\ UNCHANGED <<services, fe>>

StreamDropUndoesCreate(s) ==
    /\ req[s].status = "stream"
    /\ req' = [req EXCEPT ![s].status = "dropped"]
    /\ thread_db' = IF req[s].op = "create_thread_and_run" /\ req[s].events = 0
                    THEN [thread_db EXCEPT ![req[s].id] = NoThread]
                    ELSE thread_db
    /\ UNCHANGED <<user_db, license_db, next_thread_id, page_db, section_db,
                   membership_db, page_enabled, fe>>

\* The client disconnects: the stream is dropped.
StreamDrop(s) ==
    /\ req[s].status = "stream"
    /\ req' = [req EXCEPT ![s].status = "dropped"]
    /\ UNCHANGED <<services, fe>>

AdminOperations ==
    {"registration_token", "invitations", "job_runs", "email_setting",
     "network_setting", "security_setting", "git_repositories",
     "oauth_credential", "oauth_callback_url", "ldap_credential",
     "user_events", "disk_usage_stats", "integrations",
     "integrated_repositories", "ingestion_status", "custom_web_documents",
     "preset_web_documents", "source_id_access_policies",
     "test_model_connection", "reset_registration_token",
     "generate_reset_password_url", "update_user_active",
     "update_user_role", "create_invitation", "send_test_email",
     "create_git_repository", "delete_git_repository",
     "update_git_repository", "delete_invitation",
     "update_oauth_credential", "delete_oauth_credential",
     "test_ldap_connection", "update_ldap_credential",
     "delete_ldap_credential", "update_email_setting",
     "update_security_setting", "update_network_setting",
     "delete_email_setting", "upload_license", "reset_license",
     "create_integration", "update_integration", "delete_integration",
     "update_integrated_repository_active", "trigger_job_run",
     "create_custom_document", "delete_custom_document",
     "set_preset_document_active", "create_user_group",
     "delete_user_group", "grant_source_id_read_access",
     "revoke_source_id_read_access"}

\* ------------------------------------------------------- initial states
\* The first registered user is the admin; the last subject has no record.
InitUsers ==
    user_db = [u \in SubjectIds |->
                 IF u \in UserIds
                 THEN [exists |-> TRUE, is_admin |-> (u = 1), active |-> TRUE]
                 ELSE NoUserRec]

NoThreads ==
    /\ thread_db = [t \in ThreadIds |-> NoThread]
    /\ next_thread_id = 1

NoPages ==
    /\ page_db = [p \in PageIds |-> NoPage]
    /\ section_db = [x \in SectionIds |-> NoSection]

NoMembers == membership_db = [u \in UserIds |-> "none"]

\* The user group the requests name does not exist: calls on it can only fail.
NoGroup == membership_db = [u \in UserIds |-> "no_group"]

FeIdle == [stage |-> "idle"]

\* ---------------------------------------------- guards and admin surface
\* The operations guarded by check_admin, with one operation per other guard.
GuardOps == AdminOperations \cup {"me", "users", "notifications"}

InitGuard ==
    /\ InitUsers
    /\ license_db \in [type : LicenseTypes, valid : BOOLEAN]
    /\ NoThreads
    /\ NoPages
    /\ NoMembers
    /\ page_enabled = TRUE
    /\ req = [s \in Slots |-> IdleReq]
    /\ fe = FeIdle

NextGuard ==
    \E s \in Slots :
        \/ Start(s, GuardOps)
        \/ Return(s)
        \/ Cancel(s)
        \/ CheckUser(s)
        \/ CheckUserAllowAuthToken(s)
        \/ CheckAdmin(s)
        \/ CheckLicense(s)
        \/ Validate(s)
        \/ SelfGuard(s)
        \/ ServiceCall(s)
        \/ AuthUpdateUserActive(s)
        \/ AuthUpdateUserRole(s)
        \/ LicenseUpdate(s)
        \/ LicenseReset(s)

SpecGuard == InitGuard /\ [][NextGuard]_vars

\* ------------------------------------------ resource-scoped mutations
ResourceOps ==
    {"delete_thread", "delete_thread_message_pair", "set_thread_persisted",
     "update_thread_message", "update_page_title", "update_page_content",
     "update_page_section_title", "update_page_section_content",
     "delete_page", "delete_page_section", "move_page_section",
     "upsert_user_group_membership", "delete_user_group_membership"}

\* Threads created before the first request: thread 1, if any; it may have
\* been deleted again.
SomeThreads ==
    /\ \E n \in {0, 1} :
          /\ next_thread_id = n + 1
          /\ thread_db \in [ThreadIds ->
                [exists : {TRUE}, user_id : UserIds, is_ephemeral : BOOLEAN,
                 msgs : {1}] \cup {NoThread}]
          /\ \A t \in ThreadIds : t > n => thread_db[t] = NoThread

\* Pages written before the first request; a section belongs to a page.
SomePages ==
    /\ page_db \in [PageIds -> [exists : {TRUE}, author_id : UserIds]
                               \cup {NoPage}]
    /\ section_db \in [SectionIds -> [exists : {TRUE}, page_id : PageIds]
                                     \cup {NoSection}]
    /\ \A x \in SectionIds :
          section_db[x].exists => page_db[section_db[x].page_id].exists

InitResource ==
    /\ InitUsers
    /\ license_db = [type |-> "Community", valid |-> TRUE]
    /\ \/ SomeThreads /\ NoPages /\ NoGroup /\ page_enabled = TRUE
       \/ NoThreads /\ SomePages /\ NoGroup /\ page_enabled \in BOOLEAN
       \/ NoThreads /\ NoPages /\ NoMembers /\ page_enabled = TRUE
    /\ req = [s \in Slots |-> IdleReq]
    /\ fe = FeIdle

NextResource ==
    \E s \in Slots :
        \/ Start(s, ResourceOps)
        \/ Return(s)
        \/ Cancel(s)
        \/ CheckUser(s)
        \/ CheckUserAllowAuthToken(s)
        \/ Validate(s)
        \/ PageService(s)
        \/ ThreadGet(s)
        \/ SectionGet(s)
        \/ PageGet(s)
        \/ Policy(s)
        \/ ServiceCall(s)
        \/ ThreadDelete(s)
        \/ ThreadSetPersisted(s)
        \/ ThreadDeleteMessagePair(s)
        \/ PageDelete(s)
        \/ PageDeleteSection(s)
        \/ UserGroupUpsertMembership(s)
        \/ UserGroupDeleteMembership(s)

SpecResource == InitResource /\ [][NextResource]_vars

\* ------------------------------------------------ threads and their runs
ThreadOps ==
    {"create_thread_and_run", "create_thread_run", "delete_thread",
     "set_thread_persisted", "thread_messages"}

InitThread ==
    /\ InitUsers
    /\ license_db = [type |-> "Community", valid |-> TRUE]
    /\ SomeThreads
    /\ NoPages
    /\ NoMembers
    /\ page_enabled = TRUE
    /\ req = [s \in Slots |-> IdleReq]
    /\ fe = FeIdle

NextThread ==
    \E s \in Slots :
        \/ Start(s, ThreadOps)
        \/ Return(s)
        \/ Cancel(s)
        \/ CheckUserAllowAuthToken(s)
        \/ Validate(s)
        \/ ThreadGet(s)
        \/ OwnerGuard(s)
        \/ Policy(s)
        \/ ServiceCall(s)
        \/ ThreadCreate(s)
        \/ ThreadAppendUserMessage(s)
        \/ ThreadCreateRun(s)
        \/ ThreadDelete(s)
        \/ ThreadSetPersisted(s)
        \/ StreamEvent(s)
        \/ StreamComplete(s)
        \/ StreamDrop(s)

SpecThread == InitThread /\ [][NextThread]_vars

\* ------------------------------------------------------------- pages
PageOps ==
    {"pages", "page_sections", "update_page_title", "update_page_content",
     "update_page_section_title", "update_page_section_content",
     "delete_page", "delete_page_section", "move_page_section",
     "create_page_run", "create_thread_to_page_run",
     "create_page_section_run"}

InitPage ==
    /\ InitUsers
    /\ license_db = [type |-> "Community", valid |-> TRUE]
    /\ NoThreads
    /\ SomePages
    /\ NoGroup
    /\ page_enabled \in BOOLEAN
    /\ req = [s \in Slots |-> IdleReq]
    /\ fe = FeIdle

NextPage ==
    \E s \in Slots :
        \/ Start(s, PageOps)
        \/ Return(s)
        \/ Cancel(s)
        \/ CheckUser(s)
        \/ PageService(s)
        \/ Validate(s)
        \/ SectionGet(s)
        \/ PageGet(s)
        \/ Policy(s)
        \/ ServiceCall(s)
        \/ PageCreate(s)
        \/ PageAppendSection(s)
        \/ PageDelete(s)
        \/ PageDeleteSection(s)
        \/ StreamEvent(s)
        \/ StreamComplete(s)
        \/ StreamDrop(s)

SpecPage == InitPage /\ [][NextPage]_vars

\* ------------------------------- streams that continue a stored resource
StreamTargetOps == {"create_thread_run", "create_page_section_run"}

InitStream ==
    /\ InitUsers
    /\ license_db = [type |-> "Community", valid |-> TRUE]
    /\ \/ SomeThreads /\ NoPages
       \/ NoThreads /\ SomePages
    /\ NoGroup
    /\ page_enabled = TRUE
    /\ req = [s \in Slots |-> IdleReq]
    /\ fe = FeIdle

NextStream ==
    \E s \in Slots :
        \/ Start(s, StreamTargetOps)
        \/ Return(s)
        \/ Cancel(s)
        \/ CheckUser(s)
        \/ CheckUserAllowAuthToken(s)
        \/ PageService(s)
        \/ Validate(s)
        \/ ThreadGet(s)
        \/ OwnerGuard(s)
        \/ PageGet(s)
        \/ Policy(s)
        \/ ThreadAppendUserMessage(s)
        \/ ThreadCreateRun(s)
        \/ PageAppendSection(s)
        \/ StreamEvent(s)
        \/ StreamComplete(s)
        \/ StreamDrop(s)

SpecStream == InitStream /\ [][NextStream]_vars

\* --------------------------------------- concurrent thread subscriptions
\* Two invocations in flight at once, one per slot: juniper polls each
\* handler's future on its own, and the handlers share nothing but the
\* services.
Invocations == {"a", "b"}

RunOps == {"create_thread_run", "create_thread_and_run"}

\* The callers that differ for these handlers: nobody, a known user, or the
\* subject of a deleted user (the guard admits auth tokens, so the token kind
\* changes nothing).
RunCallers ==
    {NoClaims} \cup
    {[present |-> TRUE, sub |-> u, tok |-> FALSE] : u \in SubjectIds}

\* A subscription arrives; its future is polled until it returns.
StartRun(s) ==
    /\ req[s].status = "idle"
    /\ \E op \in RunOps, c \in RunCallers :
       \E id \in ArgIds(op), valid \in ArgValid(op) :
          req' = [req EXCEPT ![s] =
                    [IdleReq EXCEPT !.op = op, !.claims = c, !.id = id,
                                    !.valid = valid,
                                    !.status = "run", !.pc = 1]]
    /\ UNCHANGED <<services, fe>>

\* Thread 1, if it was created before, is a persisted thread of some user.
OneThread ==
    \E n \in {0, 1} :
       /\ next_thread_id = n + 1
       /\ \E u \in UserIds :
            thread_db = [t \in ThreadIds |->
                           IF t <= n
                           THEN [exists |-> TRUE, user_id |-> u,
                                 is_ephemeral |-> FALSE, msgs |-> 1]
                           ELSE NoThread]

InitConcurrent ==
    /\ InitUsers
    /\ license_db = [type |-> "Community", valid |-> TRUE]
    /\ OneThread
    /\ NoPages
    /\ NoGroup
    /\ page_enabled = TRUE
    /\ req = [s \in Invocations |-> IdleReq]
    /\ fe = FeIdle

NextConcurrent ==
    \E s \in Invocations :
        \/ StartRun(s)
        \/ CheckUserAllowAuthToken(s)
        \/ Validate(s)
        \/ ThreadGet(s)
        \/ OwnerGuard(s)
        \/ ThreadCreate(s)
        \/ ThreadAppendUserMessage(s)
        \/ ThreadCreateRun(s)
        \/ StreamComplete(s)
        \/ StreamDrop(s)

SpecConcurrent == InitConcurrent /\ [][NextConcurrent]_vars

\* ------------------------------------------- one operation per guard
\* An operation behind each guard and policy predicate, with the writes
\* they protect.
GuardedOps ==
    {"registration_token", "password_change", "update_security_setting",
     "reset_license", "delete_thread", "delete_page", "daily_stats"}

InitGuarded ==
    /\ InitUsers
    /\ license_db \in [type : {"Community", "Enterprise"}, valid : BOOLEAN]
    /\ \/ SomeThreads /\ NoPages
       \/ NoThreads /\ SomePages
    /\ NoGroup
    /\ page_enabled = TRUE
    /\ req = [s \in Slots |-> IdleReq]
    /\ fe = FeIdle

NextGuarded ==
    \E s \in Slots :
        \/ Start(s, GuardedOps)
        \/ Return(s)
        \/ CheckClaims(s)
        \/ CheckUser(s)
        \/ CheckUserAllowAuthToken(s)
        \/ CheckAdmin(s)
        \/ CheckLicense(s)
        \/ Validate(s)
        \/ PageService(s)
        \/ ThreadGet(s)
        \/ PageGet(s)
        \/ Policy(s)
        \/ CheckReadAnalytic(s)
        \/ ServiceCall(s)
        \/ LicenseReset(s)
        \/ ThreadDelete(s)
        \/ PageDelete(s)

SpecGuarded == InitGuarded /\ [][NextGuarded]_vars

\* ------------------------------------------------------- list queries
\* Row i of a listed collection has an id of its own; the cursor the service
\* mints for a row is that id, not the row's position.
RowId(i) == 2 * i

\* The collections a list query may find: ids only for users and job runs,
\* threads with their owner (and, for `threads`, whether they are ephemeral).
ItemLists(op) ==
    LET owners == IF op \in {"threads", "my_threads"} THEN UserIds ELSE {0}
        kinds == IF op = "threads" THEN BOOLEAN ELSE {FALSE}
        shapes == UNION {[1..n -> owners \X kinds] : n \in 0..MaxItems}
    IN  {[i \in 1..Len(f) |-> [id |-> RowId(i), user_id |-> f[i][1],
                               is_ephemeral |-> f[i][2]]] : f \in shapes}

\* The windows a caller may ask for; the cursors are those of rows it has
\* been shown. The threads query is given forward windows only.
Windows(op, rows) ==
    LET cursors == {None} \cup {Some(rows[i].id) : i \in 1..Len(rows)}
        sizes == {None} \cup {Some(k) : k \in 1..MaxPage}
    IN  IF op = "threads"
        THEN [after : cursors, before : {None}, first : sizes, last : {None}]
        ELSE [after : cursors, before : cursors, first : sizes, last : sizes]

CursorKnown(rows, c) == c = None \/ \E i \in 1..Len(rows) : rows[i].id = c[1]

CursorPos(rows, c) == CHOOSE i \in 1..Len(rows) : rows[i].id = c

\* What a service answers for a cursor that names none of its rows.
BadCursor == Err("InvalidInput", "invalid cursor")

Least(a, b) == IF a < b THEN a ELSE b

\* The paginated fetch every service offers: the rows between the two
\* cursors, the first `first` of them, of these the last `last`, and whether
\* a row was left beyond the window at either end; an error for a cursor it
\* does not know.
ListWindow(rows, after, before, first, last) ==
    IF ~CursorKnown(rows, after) \/ ~CursorKnown(rows, before)
    THEN [error |-> BadCursor]
    ELSE
    LET lo == IF after = None THEN 0 ELSE CursorPos(rows, after[1])
        hi == IF before = None THEN Len(rows) + 1
              ELSE CursorPos(rows, before[1])
        range == SubSeq(rows, lo + 1, hi - 1)
        head == IF first = None THEN range
                ELSE SubSeq(range, 1, Least(first[1], Len(range)))
        tail == IF last = None THEN head
                ELSE SubSeq(head, Len(head) - Least(last[1], Len(head)) + 1,
                            Len(head))
    IN  [error |-> Ok, rows |-> tail,
         extra_after |-> first # None /\ Len(range) > first[1],
         extra_before |-> last # None /\ Len(head) > last[1]]

\* The rows of r.items owned by user_id (ThreadService::list_owned).
Owned(rows, user_id) ==
    LET mine(t) == t.user_id = user_id IN SelectSeq(rows, mine)

users_fetch_from_start(r, after, before, first, last) ==
    ListWindow(r.items, None, before, first, last)

\* |after, before, first, last| ctx.locator.auth().list_users(ids, ...)
users_fetch(r, after, before, first, last) ==
    ListWindow(r.items, after, before, first, last)

job_runs_fetch_without_before(r, after, before, first, last) ==
    ListWindow(r.items, after, None, first, last)

\* |after, before, first, last| ctx.locator.job().list(ids, jobs, ...)
job_runs_fetch(r, after, before, first, last) ==
    ListWindow(r.items, after, before, first, last)

\* |after, before, first, last| ctx.locator.thread().list_owned(&user.id, ...)
my_threads_fetch(r, after, before, first, last) ==
    ListWindow(Owned(r.items, r.user.id), after, before, first, last)

\* |after, before, first, last| ctx.locator.thread().list(ids, is_ephemeral, ...)
threads_fetch(r, after, before, first, last) ==
    ListWindow(r.items, after, before, first, last)

ListCalls == {"auth.list_users", "job.list", "thread.list", "thread.list_owned"}

ListCallers ==
    {NoClaims} \cup {[present |-> TRUE, sub |-> u, tok |-> FALSE] : u \in UserIds}

\* A list query arrives with its pagination arguments.
StartList(s, ops) ==
    /\ req[s].status = "idle"
    /\ \E op \in ops, c \in ListCallers :
       \E rows \in ItemLists(op) :
       \E w \in Windows(op, rows) :
          req' = [req EXCEPT ![s] =
                    [IdleReq EXCEPT !.op = op, !.claims = c, !.items = rows,
                                    !.window = w, !.status = "run", !.pc = 1]]
    /\ UNCHANGED <<services, fe>>

\* The closure the handler of request r passes to relay::query_async.
Fetch(r, after, before, first, last) ==
    CASE r.op = "users" -> users_fetch(r, after, before, first, last)
      [] r.op = "job_runs" -> job_runs_fetch(r, after, before, first, last)
      [] r.op = "my_threads" -> my_threads_fetch(r, after, before, first, last)
      [] r.op = "threads" -> threads_fetch(r, after, before, first, last)

\* relay::query_async: hands the caller's window to the fetch of request r and
\* wraps what the fetch found into a Connection, or returns the error of the
\* fetch.
query_async(r, after, before, first, last) ==
    LET got == Fetch(r, after, before, first, last)
    IN  IF got.error # Ok THEN got.error
        ELSE
        [edges |-> [i \in 1..Len(got.rows) |->
                      [node |-> got.rows[i], cursor |-> got.rows[i].id]],
         has_next_page |-> got.extra_after,
         has_previous_page |-> got.extra_before]

\* relay::query_async(after, before, first, last, |..| service.list(..)).await
RelayQuery(s) ==
    /\ req[s].status = "run"
    /\ Step(s) \in ListCalls
    /\ \/ CallFails(s)
       \/ LET r == req[s]
              w == r.window
              c == query_async(r, w.after, w.before, w.first, w.last)
          IN  /\ req' = [req EXCEPT ![s] =
                           IF "kind" \in DOMAIN c THEN Abort(@, c)
                           ELSE Proceed([@ EXCEPT !.conn = c], Step(s))]
              /\ UNCHANGED <<services, fe>>

\* A caller that walks a collection forward from its start, `first` rows at a
\* time, asks for the page after the one it just read: the same query with
\* `after` set to the cursor of the last edge.
NextPageRequest(s) ==
    LET r == req[s]
        n == Len(r.conn.edges)
    IN  /\ r.status = "done"
        /\ r.result.kind = "Ok"
        /\ HasStep(r.op, "thread.list_owned") \/ HasStep(r.op, "auth.list_users")
        /\ r.window.first # None
        /\ r.window.last = None /\ r.window.before = None
        /\ r.seen = <<>> => r.window.after = None
        /\ r.conn.has_next_page
        /\ n > 0
        /\ req' = [req EXCEPT ![s] =
                     [IdleReq EXCEPT
                        !.op = r.op, !.claims = r.claims, !.items = r.items,
                        !.window = [r.window EXCEPT
                                      !.after = Some(r.conn.edges[n].cursor)],
                        !.seen = r.seen \o [i \in 1..n |-> r.conn.edges[i].node],
                        !.status = "run", !.pc = 1]]
        /\ UNCHANGED <<services, fe>>

\* A failing check_read_thread drops the edge instead of failing the query.
CheckReadThreadEdgesFilters(s) ==
    /\ AtStep(s, "check_read_thread.edges")
    /\ LET r == req[s]
           readable(e) ==
               check_read_thread(r.user, e.node.user_id,
                                 e.node.is_ephemeral).kind = "Ok"
       IN  req' = [req EXCEPT ![s] =
                     Proceed([@ EXCEPT !.conn.edges =
                                SelectSeq(r.conn.edges, readable)],
                             "check_read_thread.edges")]
    /\ UNCHANGED <<services, fe>>

\* for thread in threads.edges.iter() { user.policy.check_read_thread(..)? }
\* and Ok(threads): the error of the first edge that fails, or the connection.
CheckReadThreadEdges(s) ==
    /\ AtStep(s, "check_read_thread.edges")
    /\ LET r == req[s]
           verdict(i) ==
               check_read_thread(r.user, r.conn.edges[i].node.user_id,
                                 r.conn.edges[i].node.is_ephemeral)
           failing == {i \in 1..Len(r.conn.edges) : verdict(i).kind # "Ok"}
       IN  req' = [req EXCEPT ![s] =
                     IF failing = {}
                     THEN Proceed(@, "check_read_thread.edges")
                     ELSE Abort(@, verdict(CHOOSE i \in failing :
                                             \A j \in failing : i <= j))]
    /\ UNCHANGED <<services, fe>>

PagingOps == {"users", "my_threads", "job_runs"}

InitPaging ==
    /\ InitUsers
    /\ license_db = [type |-> "Community", valid |-> TRUE]
    /\ NoThreads
    /\ NoPages
    /\ NoGroup
    /\ page_enabled = TRUE
    /\ req = [s \in Slots |-> IdleReq]
    /\ fe = FeIdle

NextPaging ==
    \E s \in Slots :
        \/ StartList(s, PagingOps)
        \/ Return(s)
        \/ CheckUser(s)
        \/ CheckUserAllowAuthToken(s)
        \/ CheckAdmin(s)
        \/ RelayQuery(s)
        \/ NextPageRequest(s)

SpecPaging == InitPaging /\ [][NextPaging]_vars

\* The threads query on its own.
NextThreadList ==
    \E s \in Slots :
        \/ StartList(s, {"threads"})
        \/ Return(s)
        \/ CheckUserAllowAuthToken(s)
        \/ RelayQuery(s)
        \/ CheckReadThreadEdges(s)

SpecThreadList == InitPaging /\ [][NextThreadList]_vars

\* ----------------------------------------------- mutations with several checks
PrecedenceOps ==
    {"update_security_setting", "update_oauth_credential",
     "update_ldap_credential", "password_change",
     "upsert_user_group_membership"}

NextPrecedence ==
    \E s \in Slots :
        \/ Start(s, PrecedenceOps)
        \/ Return(s)
        \/ CheckClaims(s)
        \/ CheckUser(s)
        \/ CheckAdmin(s)
        \/ CheckLicense(s)
        \/ Validate(s)
        \/ Policy(s)
        \/ ServiceCall(s)
        \/ UserGroupUpsertMembership(s)

SpecPrecedence == InitGuard /\ [][NextPrecedence]_vars

\* ------------------------------------------------ auth-token principals
\* Operations of every guard, called by session and by auth-token principals.
TokenOps ==
    {"registration_token", "daily_stats", "repository_search",
     "repository_grep", "notifications", "mark_notifications_read",
     "user_groups", "update_thread_message", "delete_page",
     "upsert_user_group_membership",
     "me", "repository_list", "context_info", "delete_thread",
     "delete_thread_message_pair", "set_thread_persisted"}

NextToken ==
    \E s \in Slots :
        \/ Start(s, TokenOps)
        \/ Return(s)
        \/ CheckUser(s)
        \/ CheckUserAllowAuthToken(s)
        \/ CheckAdmin(s)
        \/ Validate(s)
        \/ PageService(s)
        \/ ThreadGet(s)
        \/ PageGet(s)
        \/ Policy(s)
        \/ CheckReadAnalytic(s)
        \/ ServiceCall(s)
        \/ ThreadDelete(s)
        \/ ThreadSetPersisted(s)
        \/ ThreadDeleteMessagePair(s)
        \/ PageDelete(s)
        \/ UserGroupUpsertMembership(s)

SpecToken == InitResource /\ [][NextToken]_vars

\* -------------------------------------------- access to the operations
\* Account, jobs, diagnostics, settings and analytics operations.
AccessOps ==
    {"password_change", "reset_user_auth_token", "logout_all_sessions",
     "upload_user_avatar_base64", "update_user_name",
     "job_runs", "job_run_stats", "trigger_job_run", "test_model_connection",
     "license",
     "update_security_setting", "update_oauth_credential",
     "delete_oauth_credential", "update_ldap_credential",
     "delete_ldap_credential", "test_ldap_connection",
     "daily_stats", "daily_stats_in_past_year", "chat_daily_stats",
     "chat_daily_stats_in_past_year", "user_events"}

NextAccess ==
    \E s \in Slots :
        \/ Start(s, AccessOps)
        \/ Return(s)
        \/ Cancel(s)
        \/ CheckClaims(s)
        \/ CheckUser(s)
        \/ CheckAdmin(s)
        \/ CheckLicense(s)
        \/ Validate(s)
        \/ SameUserGuard(s)
        \/ DecodeAvatar(s)
        \/ CheckReadAnalytic(s)
        \/ ServiceCall(s)

SpecAccess == InitGuard /\ [][NextAccess]_vars

\* ------------------------------------------------------ error translator
\* The &'static str and anyhow messages the handlers raise errors with.
Messages ==
    {"You're not logged in", "You must be admin to proceed", "Thread not found"}

\* ValidationErrors, in the order its map is iterated: one entry per field,
\* each a ValidationErrorsKind; a Field entry lists validator::ValidationError
\* values, a code and an optional message each.
ValidationErrors ==
    LET FieldNames == {"name", "email", "password"}
        FieldErrorLists ==
            UNION {[1..n -> [code : {"length", "email"},
                             message : {[some |-> FALSE, text |-> ""],
                                        [some |-> TRUE, text |-> "is not valid"]}]]
                   : n \in 1..MaxFieldErrors}
        ValidationEntries ==
            [field : FieldNames, kind : {"Struct"}, text : {"nested errors"},
             errs : {<<>>}]
            \cup [field : FieldNames, kind : {"List"}, text : {""},
                  errs : {<<>>}]
            \cup [field : FieldNames, kind : {"Field"}, text : {""},
                  errs : FieldErrorLists]
    IN  {es \in UNION {[1..n -> ValidationEntries] : n \in 1..MaxFields} :
            \A i, j \in 1..Len(es) : es[i].field = es[j].field => i = j}

CoreErrors ==
    [variant : {"Unauthorized", "Forbidden", "NotFound", "InvalidLicense",
                "Other"},
     msg : Messages, errors : {<<>>}]
    \cup [variant : {"InvalidID", "EmailNotConfigured"}, msg : {""},
          errors : {<<>>}]
    \cup [variant : {"InvalidInput"}, msg : {""}, errors : ValidationErrors]

TestModelConnectionErrors ==
    [variant : {"FailedToConnect"}, msg : Messages, inner : {<<>>}]
    \cup [variant : {"NotEnabled"}, msg : {""}, inner : {<<>>}]
    \cup [variant : {"Other"}, msg : {""}, inner : CoreErrors]

\* #[error(...)] of CoreError: what Display prints.
CoreErrorDisplay(e) ==
    CASE e.variant = "InvalidID" -> "Invalid ID"
      [] e.variant = "InvalidInput" -> "Invalid input parameters"
      [] e.variant = "EmailNotConfigured" -> "SMTP is not configured"
      [] OTHER -> e.msg

\* #[error(...)] of TestModelConnectionError.
TestModelConnectionErrorDisplay(e) ==
    CASE e.variant = "NotEnabled" -> "Model backend is not enabled"
      [] e.variant = "Other" -> CoreErrorDisplay(e.inner)
      [] OTHER -> e.msg

\* The extensions of a FieldError: null, {"code": c} or
\* {"validation-errors": {"errors": [...]}}.
CodeExtensions(c) == [kind |-> "code", code |-> c, errors |-> <<>>]

FieldErrorNew(message, extensions) ==
    [message |-> message, extensions |-> extensions]

\* impl From<T: Display> for FieldError: the message and null extensions.
FieldErrorFrom(message) ==
    FieldErrorNew(message, [kind |-> "null", code |-> "", errors |-> <<>>])

\* The "errors" list that gives up at the first List entry.
RECURSIVE CollectErrorsUntilList(_)
CollectErrorsUntilList(es) ==
    IF es = <<>> \/ Head(es).kind = "List" THEN <<>>
    ELSE LET en == Head(es)
             values ==
               IF en.kind = "Struct"
               THEN <<[path |-> en.field, message |-> en.text]>>
               ELSE [i \in 1..Len(en.errs) |->
                       [path |-> en.errs[i].code,
                        message |-> IF en.errs[i].message.some
                                    THEN en.errs[i].message.text
                                    ELSE ""]]
         IN  values \o CollectErrorsUntilList(Tail(es))

\* warn!("List errors are not handled"): one log line per List entry.
ListWarnings(es) ==
    LET isList(en) == en.kind = "List"
    IN  [i \in 1..Len(SelectSeq(es, isList)) |-> "List errors are not handled"]

\* The "errors" list: a Struct entry gives its field and text, a List entry
\* is logged and skipped, a Field entry gives the code and message of each
\* of its errors.
RECURSIVE CollectErrors(_)
CollectErrors(es) ==
    IF es = <<>> THEN <<>>
    ELSE LET en == Head(es)
             values ==
               CASE en.kind = "Struct" ->
                       <<[path |-> en.field, message |-> en.text]>>
                 [] en.kind = "List" -> <<>>
                 [] en.kind = "Field" ->
                       [i \in 1..Len(en.errs) |->
                          [path |-> en.errs[i].code,
                           message |-> IF en.errs[i].message.some
                                       THEN en.errs[i].message.text
                                       ELSE ""]]
         IN  values \o CollectErrors(Tail(es))

from_validation_errors(error) ==
    FieldErrorNew("Invalid input parameters",
                  [kind |-> "validation-errors", code |-> "",
                   errors |-> CollectErrors(error)])

into_field_error_not_found_uncoded(e) ==
    CASE e.variant = "Forbidden" ->
            FieldErrorNew(e.msg, CodeExtensions("FORBIDDEN"))
      [] e.variant = "Unauthorized" ->
            FieldErrorNew(e.msg, CodeExtensions("UNAUTHORIZED"))
      [] e.variant = "InvalidInput" -> from_validation_errors(e.errors)
      [] OTHER -> FieldErrorFrom(CoreErrorDisplay(e))

\* impl IntoFieldError for CoreError
into_field_error(e) ==
    CASE e.variant = "Forbidden" ->
            FieldErrorNew(e.msg, CodeExtensions("FORBIDDEN"))
      [] e.variant = "Unauthorized" ->
            FieldErrorNew(e.msg, CodeExtensions("UNAUTHORIZED"))
      [] e.variant = "NotFound" ->
            FieldErrorNew(e.msg, CodeExtensions("NOT_FOUND"))
      [] e.variant = "InvalidInput" -> from_validation_errors(e.errors)
      [] OTHER -> FieldErrorFrom(CoreErrorDisplay(e))

\* impl IntoFieldError for TestModelConnectionError
test_model_connection_into_field_error(e) ==
    IF e.variant = "Other" THEN into_field_error(e.inner)
    ELSE FieldErrorFrom(TestModelConnectionErrorDisplay(e))

\* A handler returns Err(e): a CoreError, or test_model_connection's own
\* error type.
HandlerFails ==
    /\ fe.stage = "idle"
    /\ \/ \E e \in CoreErrors :
             fe' = [stage |-> "raised", type |-> "CoreError", err |-> e]
       \/ \E e \in TestModelConnectionErrors :
             fe' = [stage |-> "raised", type |-> "TestModelConnectionError",
                    err |-> e]
    /\ UNCHANGED <<services, req>>

\* juniper turns the handler's error into the field error of the response.
IntoFieldError ==
    /\ fe.stage = "raised"
    /\ fe' = [stage |-> "translated", type |-> fe.type, err |-> fe.err,
              out |-> IF fe.type = "CoreError"
                      THEN into_field_error(fe.err)
                      ELSE test_model_connection_into_field_error(fe.err),
              log |-> LET e == IF fe.type = "CoreError" THEN fe.err
                               ELSE IF fe.err.variant = "Other"
                               THEN fe.err.inner ELSE fe.err
                      IN  IF e.variant = "InvalidInput"
                          THEN ListWarnings(e.errors) ELSE <<>>]
    /\ UNCHANGED <<services, req>>

\* The response carrying the field error went out.
Respond ==
    /\ fe.stage = "translated"
    /\ fe' = FeIdle
    /\ UNCHANGED <<services, req>>

InitError ==
    /\ InitUsers
    /\ license_db = [type |-> "Community", valid |-> TRUE]
    /\ NoThreads
    /\ NoPages
    /\ NoMembers
    /\ page_enabled = TRUE
    /\ req = [s \in Slots |-> IdleReq]
    /\ fe = FeIdle

NextError == HandlerFails \/ IntoFieldError \/ Respond

SpecError == InitError /\ [][NextError]_vars

\* ------------------------------------------------- properties: helpers
FailedAt(r, step) ==
    r.status = "done" /\ r.result.kind # "Ok" /\ Program(r.op)[r.pc] = step

Passed(r, step) == \E i \in 1..Len(r.trace) : r.trace[i] = step

\* The call was made on behalf of request r, whatever it returned.
Invoked(r, call) ==
    /\ r.status # "idle"
    /\ \E i \in 1..Len(Program(r.op)) :
          /\ Program(r.op)[i] = call
          /\ i < r.pc \/ (i = r.pc /\ r.status = "done")

InvokedAny(r) ==
    \E i \in 1..Len(Program(r.op)) :
       Program(r.op)[i] \in GenericCalls /\ Invoked(r, Program(r.op)[i])

NonAdminCaller(r) ==
    /\ r.claims.present
    /\ user_db[r.claims.sub].exists
    /\ ~user_db[r.claims.sub].is_admin

\* C2: an authenticated caller whose user is not an admin gets Forbidden from
\* every operation that requires admin (never NotFound, Unauthorized or a
\* value), and no step after the admin guard runs for that call.
C2_NonAdminForbidden ==
    \A s \in Slots :
       (req[s].op \in AdminOperations /\ NonAdminCaller(req[s])) =>
          /\ req[s].pc = 1
          /\ req[s].trace = <<>>
          /\ req[s].status # "stream"
          /\ (req[s].status = "done" /\ req[s].result # ServiceFailure) =>
                req[s].result.kind = "Forbidden"

C2_Witness ==
    \E s \in Slots :
       /\ req[s].op = "trigger_job_run"
       /\ NonAdminCaller(req[s])
       /\ ~req[s].claims.tok
       /\ req[s].status = "done"
       /\ req[s].result = Err("Forbidden", "You must be admin to proceed")

SelfTargeting(r) ==
    /\ r.op \in {"update_user_active", "update_user_role"}
    /\ r.claims.present
    /\ r.claims.sub = r.id

\* C3: update_user_active / update_user_role aimed at the caller's own id fail
\* with Forbidden for admins and non-admins alike, and the auth service's
\* update is never invoked for that call.
C3_SelfTargetForbidden ==
    \A s \in Slots :
       SelfTargeting(req[s]) =>
          /\ ~Invoked(req[s], "auth.update_user_active")
          /\ ~Invoked(req[s], "auth.update_user_role")
          /\ req[s].status = "run" =>
                Step(s) \notin {"auth.update_user_active",
                                "auth.update_user_role"}
          /\ (/\ req[s].status = "done"
              /\ user_db[req[s].claims.sub].exists
              /\ req[s].result # ServiceFailure) =>
                req[s].result.kind = "Forbidden"

C3_Witness ==
    \E s \in Slots :
       /\ SelfTargeting(req[s])
       /\ user_db[req[s].claims.sub].is_admin
       /\ req[s].op = "update_user_role"
       /\ req[s].status = "done"
       /\ req[s].result = Err("Forbidden", "You cannot update your own role")

AuthGuards == {"check_user", "check_user_allow_auth_token"}

\* C4 as stated: whenever the authentication guard fails (the user service
\* itself answering), the failure is Unauthorized.
C4_GuardFailsUnauthorized ==
    \A s \in Slots :
       (\E g \in AuthGuards : FailedAt(req[s], g)) /\ req[s].result # ServiceFailure
          => req[s].result.kind = "Unauthorized"

\* C4 (amended): the authentication guard fails with Unauthorized when the
\* context has no principal, with Forbidden when the operation forbids
\* auth-token principals and the principal is auth-token-derived, and otherwise
\* returns what auth.get_user returns: the user, or that call's error.
C4_GuardOutcome ==
    \A s \in Slots : \A g \in AuthGuards :
       /\ FailedAt(req[s], g) =>
             IF ~req[s].claims.present
             THEN req[s].result = Err("Unauthorized", "You're not logged in")
             ELSE IF g = "check_user" /\ req[s].claims.tok
             THEN req[s].result.kind = "Forbidden"
             ELSE \E fault \in BOOLEAN :
                     /\ get_user(req[s].claims.sub, fault).kind # "Ok"
                     /\ req[s].result = get_user(req[s].claims.sub, fault)
       /\ Passed(req[s], g) =>
             /\ req[s].claims.present
             /\ g = "check_user" => ~req[s].claims.tok
             /\ req[s].user.loaded
             /\ req[s].user.id = req[s].claims.sub

C4_Witness ==
    \E s \in Slots :
       /\ FailedAt(req[s], "check_user")
       /\ req[s].claims.present
       /\ req[s].claims.tok
       /\ user_db[req[s].claims.sub].exists
       /\ req[s].result.kind = "Forbidden"

LicenseGood(allowed) == license_db.type \in allowed /\ license_db.valid

\* C5: check_license(ctx, allowed) succeeds iff the current license's tier is
\* in allowed and the license is valid, fails with InvalidLicense otherwise
\* (the license service having answered), and writes nothing.
C5_CheckLicense ==
    /\ [](/\ \A allowed \in SUBSET LicenseTypes :
               /\ check_license(allowed, FALSE).kind = "Ok"
                     <=> LicenseGood(allowed)
               /\ check_license(allowed, FALSE).kind \in {"Ok", "InvalidLicense"}
          /\ \A s \in Slots :
               /\ Passed(req[s], "check_license") => LicenseGood({"Enterprise"})
               /\ (FailedAt(req[s], "check_license")
                     /\ req[s].result # ServiceFailure) =>
                     /\ req[s].result.kind = "InvalidLicense"
                     /\ ~LicenseGood({"Enterprise"}))
    /\ [][(\E s \in Slots : AtStep(s, "check_license"))
             => UNCHANGED services]_vars

C5_Witness ==
    \E s \in Slots :
       /\ FailedAt(req[s], "check_license")
       /\ license_db.type # "Enterprise"
       /\ ~license_db.valid
       /\ req[s].result.kind = "InvalidLicense"

\* The state-changing calls of the resource-scoped mutations.
ResourceMutations ==
    {"thread.delete", "thread.delete_thread_message_pair",
     "thread.set_persisted", "thread.update_thread_message",
     "page.update_title", "page.update_content", "page.update_section_title",
     "page.update_section_content", "page.delete", "page.delete_section",
     "page.move_section", "user_group.upsert_membership",
     "user_group.delete_membership"}

\* The policy predicate that answers for a state-changing call.
MatchingPolicy(call) ==
    CASE call = "thread.delete" -> "policy.check_delete_thread"
      [] call = "thread.delete_thread_message_pair" ->
            "policy.check_delete_thread_messages"
      [] call = "thread.set_persisted" ->
            "policy.check_update_thread_persistence"
      [] call = "thread.update_thread_message" ->
            "policy.check_update_thread_message"
      [] call = "user_group.upsert_membership" ->
            "policy.check_upsert_user_group_membership"
      [] call = "user_group.delete_membership" ->
            "policy.check_delete_user_group_membership"
      [] OTHER -> "policy.check_update_page"

\* The lookups that resolve the target of a state-changing call; the group
\* membership predicates resolve the group themselves.
Lookups(call) ==
    IF call \in {"thread.delete", "thread.delete_thread_message_pair",
                 "thread.set_persisted", "thread.update_thread_message"}
    THEN {"thread.get"}
    ELSE IF call \in {"page.update_title", "page.update_content", "page.delete"}
    THEN {"page.get"}
    ELSE IF call \in {"user_group.upsert_membership",
                      "user_group.delete_membership"}
    THEN {}
    ELSE {"page.get_section", "page.get"}

Position(r, step) ==
    IF Passed(r, step) THEN CHOOSE i \in 1..Len(r.trace) : r.trace[i] = step
    ELSE 0

\* The owner the service holds for the target of request r.
OwnerNow(r, call) ==
    IF "thread.get" \in Lookups(call) THEN thread_db[r.id].user_id
    ELSE IF "page.get_section" \in Lookups(call)
    THEN page_db[section_db[r.id].page_id].author_id
    ELSE IF "page.get" \in Lookups(call) THEN page_db[r.id].author_id
    ELSE 0

\* Request r has authenticated, resolved the target and passed the matching
\* policy predicate, in this order.
Cleared(r, call) ==
    /\ \E g \in AuthGuards : Passed(r, g) /\ Position(r, g) = 1
    /\ r.user.loaded
    /\ Passed(r, MatchingPolicy(call))
    /\ \A l \in Lookups(call) :
          /\ Passed(r, l)
          /\ Position(r, l) < Position(r, MatchingPolicy(call))

\* The predicate still answers Ok for the caller and the resolved target.
PolicyHolds(r, call) ==
    PolicyResult(MatchingPolicy(call), r.user, r.target).kind = "Ok"

\* Request r stands at step i of its handler or has made the call there.
ReachedStep(r, i) ==
    \/ i < r.pc
    \/ i = r.pc /\ r.status \in {"run", "done"}

CreatedThread(r) ==
    /\ r.id \in ThreadIds
    /\ thread_db[r.id].exists
    /\ thread_db[r.id].user_id = r.claims.sub
    /\ thread_db[r.id].msgs >= 1

\* C6: create_thread_and_run has persisted the thread and its user message
\* when the stream is handed to the caller, and the thread stays persisted
\* while the stream is polled, when it completes, when the caller drops it
\* having consumed nothing, and when the request is done with.
C6_ThreadDurableBeforeStream ==
    /\ [](\A s \in Slots :
            (/\ req[s].op = "create_thread_and_run"
             /\ req[s].status \in {"stream", "dropped", "completed"})
            => /\ Passed(req[s], "thread.create")
               /\ CreatedThread(req[s]))
    /\ [][\A s \in Slots :
            (/\ req[s].op = "create_thread_and_run"
             /\ req[s].status \in {"stream", "dropped", "completed"})
            => thread_db' = thread_db]_vars

C6_Witness ==
    \E s \in Slots :
       /\ req[s].op = "create_thread_and_run"
       /\ req[s].status = "dropped"
       /\ req[s].events = 0
       /\ CreatedThread(req[s])

\* The step of a streaming operation that changes the stored threads.
MutationStep(op) ==
    IF op = "create_thread_and_run" THEN "thread.create"
    ELSE "thread.append_user_message"

\* The operation ended and handed no stream to the caller.
EndedWithoutStream(r) ==
    r.op \in StreamOps /\ r.status \in {"done", "cancelled"}

\* C7 as stated: a streaming operation that ends without a stream (an error
\* of a later call such as create_run, or cancellation at an await point) has
\* not applied its mutation.
C7_NoMutationWithoutStream ==
    \A s \in Slots :
       EndedWithoutStream(req[s]) => ~Passed(req[s], MutationStep(req[s].op))

\* C7: the mutation of a streaming operation is one service call that is
\* applied whole or not at all (a stored thread always has its user message,
\* and the stored threads change in that step only); a stream is handed out
\* only after the mutation was applied; and once applied the mutation stays,
\* whether create_run then fails or the handler is cancelled - in which case
\* the operation ends with the mutation applied and no stream.
C7_MutationWholeAndKept ==
    /\ [](/\ \A t \in ThreadIds : thread_db[t].exists => thread_db[t].msgs >= 1
          /\ \A s \in Slots :
               (req[s].op \in StreamOps /\
                req[s].status \in {"stream", "dropped", "completed"})
               => Passed(req[s], MutationStep(req[s].op)))
    /\ [][\A s \in Slots : req[s].op \in StreamOps =>
            /\ thread_db' # thread_db =>
                  /\ AtStep(s, MutationStep(req[s].op))
                  /\ Passed(req'[s], MutationStep(req[s].op))
                  /\ req'[s].status = "run"
            /\ Passed(req[s], MutationStep(req[s].op)) =>
                  thread_db' = thread_db]_vars

C7_Witness ==
    \E s \in Slots :
       /\ req[s].op = "create_thread_run"
       /\ req[s].status = "cancelled"
       /\ Step(s) = "thread.create_run"
       /\ Passed(req[s], "thread.append_user_message")
       /\ thread_db[req[s].id].msgs >= 2

\* The operations that resolve a thread id before anything else.
ThreadFetchOps ==
    {"thread_messages", "delete_thread", "set_thread_persisted",
     "create_thread_run"}

\* Request r comes from a user the auth service knows and carries valid input.
AuthenticatedCaller(r) ==
    /\ r.claims.present
    /\ user_db[r.claims.sub].exists
    /\ r.valid

\* C8: delete_thread on a persisted thread answers Forbidden to a caller who
\* does not own it and leaves the thread in place; for the owner it succeeds
\* and the thread is gone; a thread id that is gone stays gone, and every
\* fetch of it by an authenticated caller answers NotFound.
C8_DeleteThread ==
    /\ [](\A s \in Slots :
            LET r == req[s] IN
            /\ (/\ r.op = "delete_thread"
                /\ r.status = "done"
                /\ r.result # ServiceFailure
                /\ Passed(r, "thread.get")
                /\ ~r.target.is_ephemeral)
               => IF r.user.id # r.target.owner
                  THEN /\ r.result.kind = "Forbidden"
                       /\ thread_db[r.id].exists
                       /\ thread_db[r.id].user_id = r.target.owner
                  ELSE /\ r.result = Ok
                       /\ ~thread_db[r.id].exists
            /\ (/\ r.op \in ThreadFetchOps
                /\ r.status = "done"
                /\ r.result # ServiceFailure
                /\ AuthenticatedCaller(r)
                /\ ~thread_db[r.id].exists
                /\ ~Passed(r, "thread.delete"))
               => r.result.kind = "NotFound")
    /\ [][\A t \in ThreadIds :
            (t < next_thread_id /\ ~thread_db[t].exists)
            => ~thread_db'[t].exists]_vars

C8_Witness ==
    \E s \in Slots :
       /\ req[s].op = "thread_messages"
       /\ req[s].status = "done"
       /\ AuthenticatedCaller(req[s])
       /\ req[s].id < next_thread_id
       /\ ~thread_db[req[s].id].exists
       /\ req[s].result = Err("NotFound", "thread not found")

\* ------------------------------------------------------ error translator
\* The CoreError a translated error is or wraps, if it is or wraps one.
IsOrWrapsCoreError ==
    /\ fe.stage = "translated"
    /\ fe.type = "TestModelConnectionError" => fe.err.variant = "Other"

TranslatedCoreError ==
    IF fe.type = "CoreError" THEN fe.err ELSE fe.err.inner

ExpectedCode(variant) ==
    CASE variant = "Unauthorized" -> "UNAUTHORIZED"
      [] variant = "Forbidden" -> "FORBIDDEN"
      [] variant = "NotFound" -> "NOT_FOUND"
      [] variant = "InvalidID" -> "INVALID_ID"
      [] variant = "InvalidInput" -> "INVALID_INPUT"
      [] variant = "InvalidLicense" -> "INVALID_LICENSE"
      [] OTHER -> ""

\* C9: Unauthorized, Forbidden and NotFound are translated to a field error
\* with the error's own message and the extension code UNAUTHORIZED,
\* FORBIDDEN and NOT_FOUND, also when TestModelConnectionError::Other wraps
\* the error.
C9_CodedErrors ==
    (/\ IsOrWrapsCoreError
     /\ TranslatedCoreError.variant \in {"Unauthorized", "Forbidden", "NotFound"})
    => /\ fe.out.message = TranslatedCoreError.msg
       /\ fe.out.extensions =
             CodeExtensions(ExpectedCode(TranslatedCoreError.variant))

C9_Witness ==
    /\ fe.stage = "translated"
    /\ fe.type = "TestModelConnectionError"
    /\ fe.err.variant = "Other"
    /\ fe.err.inner.variant = "NotFound"
    /\ fe.out = FieldErrorNew("Thread not found", CodeExtensions("NOT_FOUND"))

\* C10 as stated: InvalidID, InvalidInput and InvalidLicense are translated
\* to a field error whose extensions carry the code INVALID_ID, INVALID_INPUT
\* and INVALID_LICENSE.
C10_StructuredCodes ==
    (/\ fe.stage = "translated"
     /\ fe.type = "CoreError"
     /\ fe.err.variant \in {"InvalidID", "InvalidInput", "InvalidLicense"})
    => fe.out.extensions.code = ExpectedCode(fe.err.variant)

\* C11 as stated: a validation result with k offending fields is translated
\* to one InvalidInput field error whose extensions hold exactly k entries,
\* the i-th with the path of the i-th offending field.
C11_OneEntryPerField ==
    (/\ fe.stage = "translated"
     /\ fe.type = "CoreError"
     /\ fe.err.variant = "InvalidInput")
    => /\ fe.out.message = "Invalid input parameters"
       /\ fe.out.extensions.kind = "validation-errors"
       /\ Len(fe.out.extensions.errors) = Len(fe.err.errors)
       /\ \A i \in 1..Len(fe.err.errors) :
             fe.out.extensions.errors[i].path = fe.err.errors[i].field

\* -------------------------------------------- access to the operations
\* The principal of request r names a user the auth service knows.
ValidPrincipal(r) == r.claims.present /\ user_db[r.claims.sub].exists

\* The steps that turn a caller down for its role, its identity or its
\* policy.
RoleIdentityPolicySteps ==
    {"check_admin", "same_user_guard", "policy.check_read_analytic"}

\* C12 as stated: a caller with a valid principal that is turned down for its
\* role, identity or policy gets Forbidden, never Unauthorized; so do
\* upload_user_avatar_base64 and update_user_name for another user's id.
C12_InsufficientIsForbidden ==
    \A s \in Slots :
       (/\ ValidPrincipal(req[s])
        /\ req[s].result # ServiceFailure
        /\ \E g \in RoleIdentityPolicySteps : FailedAt(req[s], g))
       => req[s].result.kind = "Forbidden"

JobsAndDiagnostics ==
    {"job_runs", "job_run_stats", "trigger_job_run", "test_model_connection",
     "license"}

\* C13 as stated: an anonymous or non-admin caller never obtains a result
\* from an operation of the Jobs and Diagnostics groups, and no service is
\* called on its behalf.
C13_JobsDiagnosticsAdminOnly ==
    \A s \in Slots :
       (/\ req[s].op \in JobsAndDiagnostics
        /\ ~req[s].claims.present \/ NonAdminCaller(req[s]))
       => /\ req[s].result.kind # "Ok"
          /\ ~InvokedAny(req[s])

LicensedSettingChanges ==
    {"update_security_setting", "update_oauth_credential",
     "delete_oauth_credential", "update_ldap_credential",
     "delete_ldap_credential", "test_ldap_connection"}

\* C14 as stated: an operation that changes the security, LDAP or OAuth
\* settings reaches its service call only when the caller is an admin and
\* the license guard for the Enterprise tier has succeeded.
C14_SettingsNeedAdminAndLicense ==
    \A s \in Slots :
       (/\ req[s].op \in LicensedSettingChanges
        /\ InvokedAny(req[s]))
       => /\ Passed(req[s], "check_admin")
          /\ user_db[req[s].claims.sub].is_admin
          /\ Passed(req[s], "check_license")
          /\ LicenseGood({"Enterprise"})

AnalyticsOps ==
    {"daily_stats", "daily_stats_in_past_year", "chat_daily_stats",
     "chat_daily_stats_in_past_year", "user_events"}

\* Request r has come to the service call of its handler.
CallReached(r) ==
    /\ r.status # "idle"
    /\ \E i \in 1..Len(Program(r.op)) :
          Program(r.op)[i] \in GenericCalls /\ r.pc >= i

\* C15 as stated: an Analytics operation calls the analytics / user-event
\* service if and only if the caller was authenticated and the caller's
\* check_read_analytic on the requested users succeeded.
C15_AnalyticsReadPolicy ==
    \A s \in Slots :
       req[s].op \in AnalyticsOps =>
          (CallReached(req[s]) <=>
             /\ Passed(req[s], "check_user") \/ Passed(req[s], "check_admin")
             /\ Passed(req[s], "policy.check_read_analytic"))

\* ------------------------------------------------------------- pages
\* Request r has made no call on the page service and stands at none.
NoPageCall(r) == r.status # "idle" => (r.pc <= 2 /\ ~Passed(r, "page_service"))

\* C16: with the page capability absent every page operation makes no call
\* on the page service and leaves pages and sections as they are; a caller
\* the guard lets through gets Forbidden "Page service is not enabled", any
\* caller known to the auth service gets Forbidden, and a caller without a
\* principal gets Unauthorized from the guard, which runs first.
C16_PageCapabilityAbsent ==
    /\ [](\A s \in Slots :
            LET r == req[s] IN
            (~page_enabled /\ r.op \in PageOps) =>
               /\ NoPageCall(r)
               /\ r.status \notin {"stream", "dropped", "completed"}
               /\ (r.status = "done" /\ r.result # ServiceFailure) =>
                     /\ r.result.kind # "Ok"
                     /\ Passed(r, "check_user") =>
                           r.result = Err("Forbidden",
                                          "Page service is not enabled")
                     /\ ValidPrincipal(r) => r.result.kind = "Forbidden"
                     /\ ~r.claims.present => r.result.kind = "Unauthorized")
    /\ [][~page_enabled =>
            (page_db' = page_db /\ section_db' = section_db)]_vars

C16_Witness ==
    \E s \in Slots :
       /\ ~page_enabled
       /\ req[s].op = "create_page_section_run"
       /\ page_db[req[s].id].exists
       /\ Passed(req[s], "check_user")
       /\ req[s].status = "done"
       /\ req[s].result = Err("Forbidden", "Page service is not enabled")

\* ----------------------------------------------------- thread lookups
ThreadLookupOps ==
    {"thread_messages", "delete_thread", "set_thread_persisted",
     "delete_thread_message_pair", "update_thread_message",
     "create_thread_run"}

\* C17 as stated: a thread operation refuses a caller for a thread that
\* exists, but that the caller may not see or act on, with the same error
\* kind (and so the same code) as for a thread id that does not exist,
\* which is NotFound.
C17_NoExistenceLeak ==
    \A s \in Slots :
       (/\ req[s].op \in ThreadLookupOps
        /\ req[s].status = "done"
        /\ Passed(req[s], "thread.get")
        /\ req[s].result.kind # "Ok"
        /\ req[s].result # ServiceFailure)
       => req[s].result.kind = "NotFound"

\* ------------------------------------------------- stale principals
\* The handler of op starts with one of the authentication guards.
RequiresAuthentication(op) ==
    /\ Program(op) # <<>>
    /\ Program(op)[1] \in AuthGuards \cup {"check_claims", "check_admin"}

\* The credential of request r outlived its user: the record is gone or
\* deactivated.
StalePrincipal(r) ==
    /\ r.claims.present
    /\ ~user_db[r.claims.sub].exists \/ ~user_db[r.claims.sub].active

\* C18 as stated: an operation that requires authentication, those that go
\* by the claims alone included, turns a principal whose user was deleted
\* or deactivated down with Unauthorized or Forbidden and does not reach
\* its service call.
C18_StalePrincipalRejected ==
    \A s \in Slots :
       (RequiresAuthentication(req[s].op) /\ StalePrincipal(req[s])) =>
          /\ ~InvokedAny(req[s])
          /\ (req[s].status = "done" /\ req[s].result # ServiceFailure) =>
                req[s].result.kind \in {"Unauthorized", "Forbidden"}

\* ------------------------------------ streams on an absent resource
\* The thread or page that request r names is not stored.
TargetAbsent(r) ==
    CASE r.op = "create_thread_run" -> ~thread_db[r.id].exists
      [] r.op = "create_page_section_run" -> ~page_db[r.id].exists
      [] OTHER -> FALSE

\* The last step of the handler before it looks its target up.
StepBeforeLookup(op) ==
    IF op = "create_thread_run" THEN "validate" ELSE "page_service"

C19_AbsentTargetState ==
    \A s \in Slots :
       LET r == req[s]
       IN  (r.status # "idle" /\ TargetAbsent(r)) =>
              /\ ~Invoked(r, "thread.append_user_message")
              /\ ~Invoked(r, "thread.create_run")
              /\ ~Invoked(r, "page.append_section")
              /\ r.status \notin {"stream", "dropped", "completed"}
              /\ (/\ r.status = "done"
                  /\ Passed(r, StepBeforeLookup(r.op))
                  /\ r.result # ServiceFailure) => r.result.kind = "NotFound"

C19_AbsentTargetStep ==
    \A s \in Slots :
       (req[s].status # "idle" /\ TargetAbsent(req[s])) =>
          /\ thread_db' = thread_db
          /\ page_db' = page_db
          /\ section_db' = section_db

\* C19: create_thread_run on an unknown thread_id and create_page_section_run
\* on an unknown page_id end with NotFound once the lookup answers, open no
\* stream, never call append_user_message, create_run or append_section, and
\* leave the stored threads, pages and sections as they were.
C19_NotFoundBeforeMutation ==
    []C19_AbsentTargetState /\ [][C19_AbsentTargetStep]_vars

C19_Witness ==
    \E s \in Slots :
       /\ req[s].op = "create_thread_run"
       /\ TargetAbsent(req[s])
       /\ req[s].status = "done"
       /\ req[s].result = Err("NotFound", "Thread not found")

\* ------------------------------------------- runs on another's thread
NotTheOwner == Err("Forbidden", "You must be the thread owner to create a run")

\* Request r is a create_thread_run whose lookup found the thread.
RunOnFoundThread(r) ==
    r.op = "create_thread_run" /\ r.status # "idle" /\ Passed(r, "thread.get")

C20_OwnerOnlyState ==
    \A s \in Slots :
       LET r == req[s]
           called == \/ Invoked(r, "thread.append_user_message")
                     \/ Invoked(r, "thread.create_run")
                     \/ r.status \in {"stream", "dropped", "completed"}
       IN  /\ (r.op = "create_thread_run" /\ called) =>
                 /\ r.user.loaded
                 /\ RunOnFoundThread(r)
                 /\ r.target.owner = r.user.id
           /\ (RunOnFoundThread(r) /\ r.target.owner # r.user.id) =>
                 /\ ~called
                 /\ r.status = "done" => r.result = NotTheOwner

C20_OwnerOnlyStep ==
    \A s \in Slots :
       (req[s].op = "create_thread_run" /\ thread_db' # thread_db) =>
          /\ req[s].user.loaded
          /\ thread_db[req[s].id].user_id = req[s].user.id

\* C20: create_thread_run calls append_user_message and create_run, and
\* changes the thread, only for a caller whose id is the thread owner's id;
\* for any other caller, an admin included, it ends with Forbidden and makes
\* neither call.
C20_OwnerOnlyRun ==
    []C20_OwnerOnlyState /\ [][C20_OwnerOnlyStep]_vars

C20_Witness ==
    \E s \in Slots :
       /\ RunOnFoundThread(req[s])
       /\ req[s].user.is_admin
       /\ req[s].target.owner # req[s].user.id
       /\ req[s].status = "done"
       /\ req[s].result = NotTheOwner

\* ---------------------------------------- concurrent invocations
\* The steps that change a thread.
RunMutations == {"thread.append_user_message", "thread.create"}

\* Invocation r itself authenticated its caller, validated its input and,
\* where it continues a thread, found that thread and saw that its caller
\* owns it.
OwnChecks(r) ==
    /\ Len(r.trace) >= 2
    /\ r.trace[1] = "check_user_allow_auth_token"
    /\ r.trace[2] = "validate"
    /\ r.claims.present /\ r.valid
    /\ r.user.loaded /\ r.user.id = r.claims.sub
    /\ r.op = "create_thread_run" =>
          /\ Len(r.trace) >= 4
          /\ r.trace[3] = "thread.get"
          /\ r.trace[4] = "owner_guard"
          /\ r.target.owner = r.user.id
          /\ thread_db[r.id].user_id = r.user.id

Streaming(r) == r.status \in {"stream", "completed", "dropped"}

C21_OwnChecksState ==
    \A s \in Invocations :
       LET r == req[s]
       IN  /\ (\/ Invoked(r, "thread.append_user_message")
               \/ Invoked(r, "thread.create")
               \/ Invoked(r, "thread.create_run")) => OwnChecks(r)
           /\ Streaming(r) <=> (r.status # "idle" /\ r.result.kind = "Ok")

C21_OwnChecksStep ==
    /\ thread_db' # thread_db =>
          \E s \in Invocations :
             /\ \A t \in Invocations \ {s} : req'[t] = req[t]
             /\ req[s].status = "run"
             /\ Program(req[s].op)[req[s].pc] \in RunMutations
             /\ OwnChecks(req[s])
             /\ \A t \in ThreadIds :
                   thread_db'[t] # thread_db[t] =>
                      thread_db'[t].user_id = req[s].user.id
    /\ \A s \in Invocations :
          /\ (Streaming(req'[s]) /\ ~Streaming(req[s])) =>
                /\ req[s].status = "run"
                /\ Program(req[s].op)[req[s].pc] = "thread.create_run"
                /\ req'[s].status = "stream"
          /\ Streaming(req[s]) => Streaming(req'[s])

\* C21: with two subscriptions in flight at once, a thread is changed only by
\* a step of an invocation that has itself authenticated its caller, found
\* the thread and seen that its caller owns it; and an invocation hands out
\* its stream once, as the result of its create_run, and only if it succeeds.
C21_OwnChecksBeforeMutation ==
    []C21_OwnChecksState /\ [][C21_OwnChecksStep]_vars

\* Two runs on one thread by different callers: the owner's has appended its
\* message, the other's was refused.
C21_Witness ==
    \E s, t \in Invocations :
       /\ req[s].op = "create_thread_run" /\ req[t].op = "create_thread_run"
       /\ req[s].id = req[t].id
       /\ req[s].claims.sub # req[t].claims.sub
       /\ Passed(req[s], "thread.append_user_message")
       /\ req[t].result = NotTheOwner

\* ------------------------------------------------ failing guards
\* The guards and the policy predicates.
GuardSteps ==
    {"check_claims", "check_user", "check_user_allow_auth_token",
     "check_admin", "check_license", "policy.check_read_analytic"}
       \cup PolicySteps

\* The steps that call no service or only read: guards, input checks and
\* lookups.
ReadOnlySteps ==
    GuardSteps \cup {"validate", "page_service", "thread.get", "page.get"}

\* The guard at which request r ended, its own service having answered.
GuardFailed(r) ==
    /\ r.status = "done"
    /\ r.result.kind # "Ok"
    /\ r.result # ServiceFailure
    /\ Program(r.op)[r.pc] \in GuardSteps

C22_GuardFailureState ==
    \A s \in Slots :
       LET r == req[s]
           prog == Program(r.op)
       IN  /\ GuardFailed(r) =>
                /\ r.result.kind \in {"Unauthorized", "Forbidden",
                                      "InvalidLicense"}
                /\ \A i \in 1..Len(prog) :
                      /\ i < r.pc => prog[i] \in ReadOnlySteps
                      /\ i # r.pc => prog[i] # prog[r.pc]
                /\ \A i \in 1..Len(r.trace) : r.trace[i] # prog[r.pc]
           /\ (/\ r.status = "done"
               /\ ~r.claims.present
               /\ prog # <<>>
               /\ prog[1] = "check_admin") =>
                 /\ r.result = Err("Unauthorized", "You're not logged in")
                 /\ r.pc = 1

C22_GuardFailureStep ==
    \A s \in Slots :
       GuardFailed(req[s]) =>
          /\ UNCHANGED services
          /\ req'[s] \in {req[s], IdleReq}

\* C22: an operation whose guard or policy predicate fails ends there with
\* that guard's error (Unauthorized, Forbidden or InvalidLicense): the steps
\* before it only read, the guard is a single step that was evaluated once,
\* nothing is done for the operation afterwards and no service state changes;
\* an anonymous caller of an admin-only operation gets Unauthorized at the
\* first step.
C22_GuardFailureTerminal ==
    []C22_GuardFailureState /\ [][C22_GuardFailureStep]_vars

C22_Witness ==
    \E s \in Slots :
       /\ req[s].op = "registration_token"
       /\ ~req[s].claims.present
       /\ GuardFailed(req[s])
       /\ req[s].result = Err("Unauthorized", "You're not logged in")

\* ------------------------------------------------------ pagination
\* The ordered collection a list query of request r pages through.
Collection(r) ==
    IF r.op = "my_threads" THEN Owned(r.items, r.user.id) ELSE r.items

Nodes(conn) == [i \in 1..Len(conn.edges) |-> conn.edges[i].node]

\* Request r got its page, and it is a page of a forward walk: first = k from
\* the start, or after the last node of the pages read so far.
ForwardPage(r) ==
    /\ r.op \in {"users", "my_threads"}
    /\ r.status = "done" /\ r.result.kind = "Ok"
    /\ r.window.first # None
    /\ r.window.last = None /\ r.window.before = None
    /\ r.window.after = IF r.seen = <<>> THEN None
                        ELSE Some(r.seen[Len(r.seen)].id)

\* C23: walking forward with first = k, each page holds the next k rows of
\* the collection (fewer on the last page), the pages read so far are a
\* prefix of the collection, has_next_page is true exactly while rows remain,
\* and when it is false the pages together are the whole collection.
C23_ForwardRoundTrip ==
    \A s \in Slots :
       LET r == req[s]
           full == Collection(r)
           page == Nodes(r.conn)
           read == r.seen \o page
       IN  ForwardPage(r) =>
              /\ Len(read) <= Len(full)
              /\ read = SubSeq(full, 1, Len(read))
              /\ Len(page) = Least(r.window.first[1], Len(full) - Len(r.seen))
              /\ r.conn.has_next_page <=> Len(read) < Len(full)
              /\ ~r.conn.has_next_page => read = full

\* The last, shorter page of a walk of more than one page.
C23_Witness ==
    \E s \in Slots :
       /\ ForwardPage(req[s])
       /\ req[s].seen # <<>>
       /\ ~req[s].conn.has_next_page
       /\ Len(req[s].conn.edges) < req[s].window.first[1]
       /\ req[s].seen \o Nodes(req[s].conn) = Collection(req[s])

\* Some(n) as a number, None as zero.
SizeOf(opt) == IF opt = None THEN 0 ELSE opt[1]

Greatest(a, b) == IF a > b THEN a ELSE b

\* C24: the connection of a list query is what the service's fetch finds for
\* the caller's own after, before, first and last, the cursors being resolved
\* against the ids of the rows and not counted as offsets: it holds no more
\* than max(first, last) edges, each edge carries the cursor of its row, and
\* has_next_page / has_previous_page tell whether the fetch left a row beyond
\* the window at that end.
C24_WindowPassThrough ==
    \A s \in Slots :
       LET r == req[s]
           w == r.window
           found == ListWindow(Collection(r), w.after, w.before, w.first,
                               w.last)
       IN  (/\ r.op \in PagingOps
            /\ r.status = "done"
            /\ \E i \in 1..Len(r.trace) : r.trace[i] \in AuthGuards \cup {"check_admin"})
           => IF found.error # Ok THEN r.result \in {found.error, ServiceFailure}
              ELSE r.result # ServiceFailure =>
                 /\ r.result = Ok
                 /\ Nodes(r.conn) = found.rows
                 /\ \A i \in 1..Len(r.conn.edges) :
                       r.conn.edges[i].cursor = r.conn.edges[i].node.id
                 /\ (w.first # None \/ w.last # None) =>
                       Len(r.conn.edges)
                          <= Greatest(SizeOf(w.first), SizeOf(w.last))
                 /\ r.conn.has_next_page = found.extra_after
                 /\ r.conn.has_previous_page = found.extra_before
                 /\ \A i \in 1..Len(found.rows) :
                       /\ w.after # None => found.rows[i].id > w.after[1]
                       /\ w.before # None => found.rows[i].id < w.before[1]

\* job_runs with both first and last: a row is left at either end.
C24_Witness ==
    \E s \in Slots :
       /\ req[s].op = "job_runs"
       /\ req[s].status = "done" /\ req[s].result = Ok
       /\ req[s].window.first # None /\ req[s].window.last # None
       /\ Len(req[s].conn.edges) = 1
       /\ req[s].conn.has_next_page
       /\ req[s].conn.has_previous_page

\* ------------------------------------------- list-typed sub-errors
\* The number of "errors" entries the sub-errors es[1..n] stand for: one per
\* Struct, one per error of a Field, none for a List.
RECURSIVE EntriesDue(_, _)
EntriesDue(es, n) ==
    IF n = 0 THEN 0
    ELSE EntriesDue(es, n - 1)
           + (CASE es[n].kind = "Struct" -> 1
                [] es[n].kind = "Field" -> Len(es[n].errs)
                [] OTHER -> 0)

HasListEntry(es) == \E i \in 1..Len(es) : es[i].kind = "List"

\* C25: a validation-error collection with a List sub-error is still answered
\* with the "Invalid input parameters" field error and its validation-errors
\* extension; each List sub-error leaves one warning in the log and no entry,
\* and the Struct and Field sub-errors before and after it leave their
\* entries, in order.
C25_ListErrorsLoggedNotDropped ==
    (/\ fe.stage = "translated"
     /\ fe.type = "CoreError"
     /\ fe.err.variant = "InvalidInput"
     /\ HasListEntry(fe.err.errors))
    => LET es == fe.err.errors
           out == fe.out.extensions.errors
       IN  /\ fe.out.message = "Invalid input parameters"
           /\ fe.out.extensions.kind = "validation-errors"
           /\ Len(fe.log) = Cardinality({i \in 1..Len(es) : es[i].kind = "List"})
           /\ \A i \in 1..Len(fe.log) : fe.log[i] = "List errors are not handled"
           /\ Len(out) = EntriesDue(es, Len(es))
           /\ \A n \in 1..Len(es) :
                 /\ es[n].kind = "Struct" =>
                       out[EntriesDue(es, n)] =
                          [path |-> es[n].field, message |-> es[n].text]
                 /\ es[n].kind = "Field" =>
                       \A j \in 1..Len(es[n].errs) :
                          out[EntriesDue(es, n - 1) + j].path = es[n].errs[j].code

\* A List sub-error followed by a Field sub-error.
C25_Witness ==
    /\ fe.stage = "translated"
    /\ fe.type = "CoreError"
    /\ fe.err.variant = "InvalidInput"
    /\ Len(fe.err.errors) = 2
    /\ fe.err.errors[1].kind = "List"
    /\ fe.err.errors[2].kind = "Field"
    /\ Len(fe.log) = 1
    /\ Len(fe.out.extensions.errors) = Len(fe.err.errors[2].errs)

\* ----------------------------------------------- admin status in time
NotAdmin == Err("Forbidden", "You must be admin to proceed")

\* Request r is an admin-only operation of a known user that did not come in
\* with an auth token.
AdminCall(r) ==
    /\ r.op \in AdminOperations
    /\ r.claims.present /\ ~r.claims.tok
    /\ user_db[r.claims.sub].exists

\* C26: the admin guard goes by the is_admin flag the user record holds when
\* the operation runs, whatever it was when the principal's credential was
\* issued: a user that has been demoted gets Forbidden from every admin-only
\* operation, and a user that has been promoted passes the guard.
C26_AdminFromRecord ==
    \A s \in Slots :
       LET r == req[s]
           admin == user_db[r.claims.sub].is_admin
       IN  AdminCall(r) =>
              /\ Passed(r, "check_admin") => admin
              /\ (r.status = "done" /\ r.pc = 1 /\ r.result # ServiceFailure)
                    => ~admin /\ r.result = NotAdmin
              /\ (r.status = "done" /\ ~admin) => r.pc = 1 /\ ~InvokedAny(r)

\* The first admin, demoted by a user it had promoted, is turned down.
C26_Witness ==
    \E s \in Slots :
       /\ AdminCall(req[s])
       /\ req[s].claims.sub = 1
       /\ ~user_db[1].is_admin
       /\ req[s].status = "done"
       /\ req[s].result = NotAdmin

\* ------------------------------------------------- the last admin
AdminExists == \E u \in UserIds : user_db[u].exists /\ user_db[u].is_admin

\* A step takes the admin role from a user only as the update_user_role of
\* another user who is an admin and stays one.
C30_DemotionStep ==
    \A u \in UserIds :
       (user_db[u].is_admin /\ ~user_db'[u].is_admin) =>
          \E s \in Slots :
             LET r == req[s]
             IN  /\ r.op = "update_user_role"
                 /\ r.id = u /\ ~r.flag
                 /\ r.claims.present /\ r.claims.sub # u
                 /\ user_db[r.claims.sub].is_admin
                 /\ user_db'[r.claims.sub].is_admin

\* C30: whatever operations run one after the other, some user is an admin:
\* the role is taken from a user only by another user who is an admin at
\* that moment and remains one.
C30_AdminRemains ==
    []AdminExists /\ [][C30_DemotionStep]_vars

\* The first admin has been demoted by the user it promoted.
C30_Witness ==
    \E s \in Slots :
       /\ req[s].op = "update_user_role"
       /\ req[s].id = 1 /\ ~req[s].flag
       /\ req[s].status = "done" /\ req[s].result = Ok
       /\ ~user_db[1].is_admin
       /\ AdminExists

\* ------------------------------------------- the threads query
\* The connection request r hands to its caller: the handler's value when it
\* returns Ok, nothing otherwise.
Returned(r) == IF r.status = "done" /\ r.result = Ok THEN r.conn ELSE NoConn

Readable(r, t) == check_read_thread(r.user, t.user_id, t.is_ephemeral).kind = "Ok"

\* C27: a threads query whose fetch has answered returns the fetched page as
\* it is when the caller may read every thread of it, and otherwise fails
\* with Forbidden and returns nothing: never a page with a thread the caller
\* may not read, never a part of the fetched page.
C27_ThreadsAllOrNothing ==
    \A s \in Slots :
       LET r == req[s]
           w == r.window
           fetched == ListWindow(r.items, w.after, w.before, w.first, w.last).rows
           allowed == \A i \in 1..Len(fetched) : Readable(r, fetched[i])
       IN  (/\ r.op = "threads"
            /\ r.status = "done"
            /\ Passed(r, "thread.list"))
           => /\ allowed => r.result = Ok /\ Nodes(Returned(r)) = fetched
              /\ ~allowed => r.result.kind = "Forbidden" /\ Returned(r) = NoConn
              /\ \A i \in 1..Len(Returned(r).edges) :
                    Readable(r, Returned(r).edges[i].node)

\* A page of two threads, the second one another user's ephemeral thread.
C27_Witness ==
    \E s \in Slots :
       LET r == req[s]
       IN  /\ r.op = "threads"
           /\ r.status = "done"
           /\ Passed(r, "thread.list")
           /\ Len(r.conn.edges) = 2
           /\ Readable(r, r.conn.edges[1].node)
           /\ ~Readable(r, r.conn.edges[2].node)
           /\ r.result.kind = "Forbidden"

\* ------------------------------------------- auth-token principals
TokenForbidden ==
    Err("Forbidden", "Invoking this API with an auth token is not allowed")

\* The operations that turn an auth-token principal away.
SessionOnlyOps ==
    AdminOperations \cup PageOps \cup AnalyticsOps \cup
    {"update_thread_message", "repository_search", "repository_grep",
     "notifications", "mark_notifications_read", "user_groups",
     "upsert_user_group_membership", "delete_user_group_membership"}

\* The operations that take an auth-token principal.
TokenAllowedOps ==
    {"me", "repository_list", "context_info", "threads", "my_threads",
     "thread_messages", "delete_thread", "delete_thread_message_pair",
     "set_thread_persisted", "create_thread_and_run", "create_thread_run"}

TokenCall(r) == r.claims.present /\ r.claims.tok /\ r.status # "idle"

GuardActed(r) == r.status # "run" \/ r.pc > 1

\* The first step of every handler of the two lists.
GuardsPlaced ==
    /\ \A op \in SessionOnlyOps : Program(op)[1] \in {"check_user", "check_admin"}
    /\ \A op \in TokenAllowedOps : Program(op)[1] = "check_user_allow_auth_token"

\* C28: every session-only operation starts with check_user or check_admin
\* and answers an auth-token principal with Forbidden, with no user record
\* loaded and no step passed, whether or not the subject has a record; every
\* token-allowed operation starts with check_user_allow_auth_token, which
\* never answers with that error and loads the record of a subject that has
\* one.
C28_TokenPrincipals ==
    /\ GuardsPlaced
    /\ \A s \in Slots :
          LET r == req[s]
          IN  /\ (TokenCall(r) /\ r.op \in SessionOnlyOps /\ GuardActed(r))
                 => /\ r.status = "done"
                    /\ r.result = TokenForbidden
                    /\ r.user = NoUser
                    /\ r.trace = <<>>
              /\ (TokenCall(r) /\ r.op \in TokenAllowedOps /\ GuardActed(r))
                 => /\ r.result # TokenForbidden
                    /\ \/ Passed(r, "check_user_allow_auth_token") /\ r.user.loaded
                       \/ /\ r.status = "done"
                          /\ r.trace = <<>>
                          /\ \/ r.result = ServiceFailure
                             \/ ~user_db[r.claims.sub].exists

\* An auth-token principal whose subject has no record is answered Forbidden
\* by a session-only operation.
C28_Witness ==
    \E s \in Slots :
       LET r == req[s]
       IN  /\ TokenCall(r)
           /\ r.op = "repository_search"
           /\ ~user_db[r.claims.sub].exists
           /\ r.status = "done"
           /\ r.result = TokenForbidden

\* ------------------------------------------- precedence of errors
\* The checks of a mutation in the order their failures are to be reported.
Precedence(op) ==
    CASE op = "password_change" -> <<"check_claims", "validate">>
      [] op = "upsert_user_group_membership" ->
            <<"check_user", "policy.check_upsert_user_group_membership",
              "validate">>
      [] OTHER -> <<"check_admin", "check_license", "validate">>

\* What a check answers to request r in the current state when the services
\* it reads answer.
Verdict(r, check) ==
    CASE check = "check_claims" -> check_claims(r.claims)
      [] check = "check_user" -> check_user(r.claims, FALSE)
      [] check = "check_admin" -> check_admin(r.claims, FALSE)
      [] check = "check_license" -> check_license({"Enterprise"}, FALSE)
      [] check = "validate" ->
            IF r.valid THEN Ok
            ELSE Err("InvalidInput", "Invalid input parameters")
      [] check = "policy.check_upsert_user_group_membership" ->
            IF check_user(r.claims, FALSE).kind # "Ok" THEN Ok
            ELSE check_upsert_user_group_membership(LoadedUser(r.claims.sub))

FailingChecks(r) ==
    {k \in 1..Len(Precedence(r.op)) : Verdict(r, Precedence(r.op)[k]).kind # "Ok"}

C29_PrecedenceStep ==
    \A s \in Slots :
       LET r == req[s]
           r2 == req'[s]
           order == Precedence(r.op)
           failing == FailingChecks(r)
           first == CHOOSE k \in failing : \A j \in failing : k <= j
       IN  (r.op \in PrecedenceOps /\ r.status = "run" /\ r2.status = "done")
           => IF failing = {}
              THEN r2.result \in {Ok, ServiceFailure}
              ELSE /\ r2.result \in {Verdict(r, order[first]), ServiceFailure}
                   /\ Len(r2.trace) < first
                   /\ r2.trace = SubSeq(order, 1, Len(r2.trace))
                   /\ r2.result # ServiceFailure => Len(r2.trace) = first - 1

\* C29: a mutation with several checks ends with the error of the first check,
\* in the order authentication/admin, license, policy, input validation, that
\* fails (or with the failure of a service read by that check or by one before
\* it); the checks after it and the service call are not run.
C29_ErrorPrecedence == [][C29_PrecedenceStep]_vars

\* An admin with an invalid input under a license that does not cover the
\* feature: the license error is reported and the input is not validated.
C29_Witness ==
    \E s \in Slots :
       LET r == req[s]
       IN  /\ r.op = "update_security_setting"
           /\ r.status = "done"
           /\ ~r.valid
           /\ check_license({"Enterprise"}, FALSE).kind = "InvalidLicense"
           /\ r.result.kind = "InvalidLicense"
           /\ r.trace = <<"check_admin">>
====
